---- MODULE Spec2Model ----
(***************************************************************************)
(* Model of the ruparse rule interpreter (src/src/parser.rs).              *)
(*                                                                         *)
(* The interpreter is a deterministic recursive function of a grammar and  *)
(* a token stream.  Each Rust function is one operator with the same name, *)
(* computed the way the code computes it; the cursor, the globals store    *)
(* and a history log are threaded through the calls in the record `s`.     *)
(* Token indices are 0-based as in the code (TokenAt adds the offset).     *)
(* A Rust panic (slice index out of bounds) is the outcome "Panic".        *)
(***************************************************************************)
EXTENDS Integers, Sequences, FiniteSets, TLC

VARIABLES lexer, grammar, input_text, input_tokens, pc, outcome, twin, arena, issued

vars == <<lexer, grammar, input_text, input_tokens, pc, outcome, twin, arena, issued>>

(***************************************************************************)
(* Bounds of the model.                                                    *)
(***************************************************************************)
MaxLen == 3
MaxFuel == 24

(***************************************************************************)
(* Lexer interface: token kinds, whitespace classification, stringify.     *)
(***************************************************************************)
Eof == "Eof"
Eol == "Eol"
Whitespace == "Whitespace"
Text == "Text"

is_whitespace(kind) == kind \in {Whitespace, Eol}

stringify(token, txt) == SubSeq(txt, token.index + 1, token.index + token.len)

TokenAt(toks, idx) == toks[idx + 1]

(***************************************************************************)
(* The lexer.  A text is a sequence of characters; a registered token is   *)
(* named by its string and Spelling gives the characters of that string.   *)
(* Whitespace and end-of-line recognition are always enabled.              *)
(***************************************************************************)
Spelling ==
    ("a" :> <<"a">>) @@ ("b" :> <<"b">>) @@ ("ab" :> <<"a", "b">>)
 @@ ("ba" :> <<"b", "a">>) @@ ("abc" :> <<"a", "b", "c">>)
 @@ ("" :> <<>>)

Blank == {" ", "\t"}
LineEnd == {"\n"}

\* line and column of the character at a byte index
Newlines(text, index) == { i \in 1..index : text[i] \in LineEnd }
Location(text, index) ==
    [line |-> Cardinality(Newlines(text, index)),
     column |-> index - (IF Newlines(text, index) = {} THEN 0
                         ELSE CHOOSE i \in Newlines(text, index) :
                                 \A j \in Newlines(text, index) : j <= i)]

Token(kind, index, len, text) ==
    [kind |-> kind, index |-> index, len |-> len, location |-> Location(text, index)]

\* the registered tokens whose whole string is a prefix of the input at pos
IsPrefixAt(word, text, pos) ==
    /\ pos + Len(word) <= Len(text)
    /\ SubSeq(text, pos + 1, pos + Len(word)) = word
starting(token_kinds, text, pos) ==
    { k \in token_kinds : IsPrefixAt(Spelling[k], text, pos) }

\* a selection that takes the shortest candidate
shortest(ks) == CHOOSE k \in ks : \A j \in ks : Len(Spelling[k]) <= Len(Spelling[j])

\* greedy selection: the longest candidate
longest(ks) == CHOOSE k \in ks : \A j \in ks : Len(Spelling[j]) <= Len(Spelling[k])

\* a lexer that forgets the pending run of text
flush_nothing(acc, start, pos, text) == acc

\* the pending run of text, from start up to pos, becomes one Text token
flush(acc, start, pos, text) ==
    IF start < pos THEN Append(acc, Token(Text, start, pos - start, text)) ELSE acc

RECURSIVE lex_from(_, _, _, _, _)
lex_from(token_kinds, text, pos, start, acc) ==
    IF pos >= Len(text)
    THEN Append(flush(acc, start, pos, text), Token(Eof, Len(text), 0, text))
    ELSE IF text[pos + 1] \in Blank
    THEN lex_from(token_kinds, text, pos + 1, pos + 1,
                  Append(flush(acc, start, pos, text), Token(Whitespace, pos, 1, text)))
    ELSE IF text[pos + 1] \in LineEnd
    THEN lex_from(token_kinds, text, pos + 1, pos + 1,
                  Append(flush(acc, start, pos, text), Token(Eol, pos, 1, text)))
    ELSE IF starting(token_kinds, text, pos) # {}
    THEN lex_from(token_kinds, text,
                  pos + Len(Spelling[longest(starting(token_kinds, text, pos))]),
                  pos + Len(Spelling[longest(starting(token_kinds, text, pos))]),
                  Append(flush(acc, start, pos, text),
                         Token(longest(starting(token_kinds, text, pos)), pos,
                               Len(Spelling[longest(starting(token_kinds, text, pos))]), text)))
    ELSE lex_from(token_kinds, text, pos + 1, start, acc)

lex_utf8(token_kinds, text) == lex_from(token_kinds, text, 0, 0, <<>>)

\* a slice that leaves the whitespace out
RECURSIVE stringify_slice_significant(_, _)
stringify_slice_significant(tokens, text) ==
    IF tokens = <<>> THEN <<>>
    ELSE (IF is_whitespace(tokens[1].kind) THEN <<>> ELSE stringify(tokens[1], text))
         \o stringify_slice_significant(Tail(tokens), text)

\* the text of a run of tokens
RECURSIVE stringify_slice(_, _)
stringify_slice(tokens, text) ==
    IF tokens = <<>> THEN <<>>
    ELSE stringify(tokens[1], text) \o stringify_slice(Tail(tokens), text)

(***************************************************************************)
(* Values of the parser: Option, Nodes, VariableKind, ParseError, Cursor.  *)
(***************************************************************************)
None == <<>>
Some(x) == <<x>>

NodesToken(tok) == [t |-> "Token", tok |-> tok]
NodesNode(node) == [t |-> "Node", node |-> node]
is_token(val) == val.t = "Token"

ParseError(kind, location, node) == [kind |-> kind, location |-> location, node |-> node]
NoError == ParseError([e |-> "Ok"], 0, None)

Cursor(idx, to_advance) == [idx |-> idx, to_advance |-> to_advance]

variables_from_grammar(variables) ==
    [v \in DOMAIN variables |->
        CASE variables[v] = "Node" -> [k |-> "Node", v |-> None]
          [] variables[v] = "NodeList" -> [k |-> "NodeList", v |-> <<>>]
          [] variables[v] = "Boolean" -> [k |-> "Boolean", v |-> FALSE]
          [] variables[v] = "Number" -> [k |-> "Number", v |-> 0]]

NodeNew(name) ==
    [name |-> name, variables |-> <<>>, first_string_idx |-> 0,
     last_string_idx |-> 0, harderror |-> FALSE]

from_grammar(g, name) ==
    [NodeNew(name) EXCEPT !.variables = variables_from_grammar(g.nodes[name].variables)]

(***************************************************************************)
(* The threaded state: cursor, globals and the history log.                *)
(***************************************************************************)
\* the history log records every event with the cursor index after it
Log(s, ev) == [s EXCEPT !.log = Append(@, ev @@ [at |-> s.cursor.idx])]
SetCursor(s, c) == [s EXCEPT !.cursor = c]
SetIdx(s, idx) == [s EXCEPT !.cursor.idx = idx]
SetToAdvance(s, b) == [s EXCEPT !.cursor.to_advance = b]

(***************************************************************************)
(* Results of match_token: TokenCompare::Is / IsNot, Err (the `?` path),   *)
(* or an aborted evaluation (Panic, Fuel).                                 *)
(***************************************************************************)
MIs(val, s) == [tag |-> "Is", val |-> val, err |-> NoError, s |-> s]
MIsNot(e, s) == [tag |-> "IsNot", val |-> None, err |-> e, s |-> s]
MErr(e, s) == [tag |-> "Err", val |-> None, err |-> e, s |-> s]
MAbort(tag, s) == [tag |-> tag, val |-> None, err |-> NoError, s |-> s]

Aborted(tag) == tag \in {"Panic", "Fuel"}

(***************************************************************************)
(* match_token, the branches that do not recurse: Token, Word and Any.     *)
(***************************************************************************)
RECURSIVE skip_whitespace(_, _)
skip_whitespace(toks, idx) ==
    IF idx >= Len(toks) THEN idx
    ELSE IF is_whitespace(TokenAt(toks, idx).kind) THEN skip_whitespace(toks, idx + 1)
    ELSE idx

EofToken == [kind |-> Eof, index |-> 0, len |-> 0]

\* a match that compares the token under the cursor without skipping whitespace
match_token_Token_noskip(tok, s, toks) ==
    LET idx == s.cursor.idx
        current_token == TokenAt(toks, idx)
    IN  IF tok = Eof /\ idx >= Len(toks) THEN MIs(NodesToken(EofToken), s)
        ELSE IF idx >= Len(toks)
        THEN MIsNot(ParseError([e |-> "Eof"], TokenAt(toks, idx - 1).index, None), s)
        ELSE IF tok # current_token.kind
        THEN MIsNot(ParseError([e |-> "ExpectedToken", expected |-> tok,
                                found |-> current_token.kind],
                               current_token.index, None), s)
        ELSE MIs(NodesToken(current_token), s)

match_token_Token(tok, s, toks) ==
    LET idx == s.cursor.idx
        j == skip_whitespace(toks, idx)
        current_token == TokenAt(toks, j)
    IN  IF tok = Eof /\ idx >= Len(toks) THEN MIs(NodesToken(EofToken), s)
        ELSE IF idx >= Len(toks)
        THEN MIsNot(ParseError([e |-> "Eof"], TokenAt(toks, idx - 1).index, None), s)
        ELSE IF j >= Len(toks) THEN MAbort("Panic", SetIdx(s, j))
        ELSE IF tok # current_token.kind
        THEN MIsNot(ParseError([e |-> "ExpectedToken", expected |-> tok,
                                found |-> current_token.kind],
                               current_token.index, None), SetIdx(s, j))
        ELSE MIs(NodesToken(current_token), SetIdx(s, j))

match_token_Word(word, s, toks, txt) ==
    LET idx == s.cursor.idx
        j == skip_whitespace(toks, idx)
        current_token == TokenAt(toks, j)
    IN  IF j >= Len(toks) THEN MAbort("Panic", SetIdx(s, j))
        ELSE IF current_token.kind # Text \/ word # stringify(current_token, txt)
        THEN MIsNot(ParseError([e |-> "ExpectedWord", expected |-> word,
                                found |-> current_token.kind],
                               current_token.index, None), SetIdx(s, j))
        ELSE MIs(NodesToken(current_token), SetIdx(s, j))

match_token_Any(s, toks) ==
    IF s.cursor.idx >= Len(toks) THEN MAbort("Panic", s)
    ELSE MIs(NodesToken(TokenAt(toks, s.cursor.idx)), s)

(***************************************************************************)
(* Control messages of the message bus (enum Msg).                         *)
(***************************************************************************)
MsgOk == [m |-> "Ok", n |-> 0, label |-> ""]
MsgReturn == [m |-> "Return", n |-> 0, label |-> ""]
\* a Break that counts one list more than it was given
MsgBreak_one_more(n) == [m |-> "Break", n |-> n + 1, label |-> ""]
MsgBreak(n) == [m |-> "Break", n |-> n, label |-> ""]
\* a Back that goes one step further than it was given
MsgBack_one_more(steps) == [m |-> "Back", n |-> steps + 1, label |-> ""]
MsgBack(steps) == [m |-> "Back", n |-> steps, label |-> ""]
MsgGoto(label) == [m |-> "Goto", n |-> 0, label |-> label]

(***************************************************************************)
(* parse_parameters: applies the parameters of a matched rule in order.    *)
(* The node and the globals are updated in place, so the updates made      *)
(* before a failing parameter are kept in the result.                      *)
(***************************************************************************)
PRes(tag, e, node, s, bus) == [tag |-> tag, err |-> e, node |-> node, s |-> s, bus |-> bus]

\* `bus.send(msg)` in parse_parameters; the history records the message sent
send(msg, node, s, bus) ==
    PRes("Ok", NoError, node, Log(s, [ev |-> "send", msg |-> msg, node |-> node.name]),
         Append(bus, msg))

\* a Set that puts the value in front of a list
SetValue_in_front(kind, value) ==
    IF kind.k = "Node" THEN [kind EXCEPT !.v = Some(value)]
    ELSE [kind EXCEPT !.v = <<value>> \o @]

SetValue(kind, value) ==
    IF kind.k = "Node" THEN [kind EXCEPT !.v = Some(value)]
    ELSE [kind EXCEPT !.v = Append(@, value)]

parse_parameter(parameter, s, node, value, bus, toks) ==
    LET loc == TokenAt(toks, s.cursor.idx).index
        tok == TokenAt(toks, s.cursor.idx)
        p == parameter.p
        local == p \in {"Set", "Increment", "Decrement", "True", "False"}
        store == IF local THEN node.variables ELSE s.globals
        scope == IF local THEN "Local" ELSE "Global"
        var == [scope |-> scope, name |-> parameter.var]
        kind == store[parameter.var]
        put(newkind) ==
            IF local
            THEN PRes("Ok", NoError, [node EXCEPT !.variables[parameter.var] = newkind], s, bus)
            ELSE PRes("Ok", NoError, node, [s EXCEPT !.globals[parameter.var] = newkind], bus)
        fail(e) == IF s.cursor.idx >= Len(toks) THEN PRes("Panic", NoError, node, s, bus)
                   ELSE PRes("Err", ParseError(e, loc, None), node, s, bus)
    IN  CASE p \in {"Print", "Debug", "Hint"} -> PRes("Ok", NoError, node, s, bus)
          [] p = "HardError" -> PRes("Ok", NoError, [node EXCEPT !.harderror = parameter.value], s, bus)
          [] p = "Back" -> send(MsgBack(parameter.n), node, s, bus)
          [] p = "Return" -> send(MsgReturn, node, s, bus)
          [] p = "Goto" -> send(MsgGoto(parameter.label), node, s, bus)
          [] p = "Break" -> send(MsgBreak(parameter.n), node, s, bus)
          [] p \in {"NodeStart", "NodeEnd"} /\ s.cursor.idx >= Len(toks) ->
                PRes("Panic", NoError, node, s, bus)
          [] p = "NodeStart" ->
                PRes("Ok", NoError, [node EXCEPT !.first_string_idx = tok.index], s, bus)
          [] p = "NodeEnd" ->
                PRes("Ok", NoError, [node EXCEPT !.last_string_idx = tok.index + tok.len], s, bus)
          [] parameter.var \notin DOMAIN store -> fail([e |-> "VariableNotFound", var |-> var])
          [] p \in {"Set", "Global"} ->
                IF kind.k \in {"Node", "NodeList"} THEN put(SetValue(kind, value))
                ELSE fail([e |-> "CannotSetVariable", var |-> var, kind |-> kind])
          [] p \in {"Increment", "IncrementGlobal"} ->
                IF kind.k = "Number" THEN put([kind EXCEPT !.v = @ + 1])
                ELSE IF kind.k = "Node" /\ p = "Increment"
                THEN fail([e |-> "VariableNotFound", var |-> var])
                ELSE fail([e |-> "UncountableVariable", var |-> var, kind |-> kind])
          [] p = "Decrement" ->
                IF kind.k = "Number" THEN put([kind EXCEPT !.v = @ - 1])
                ELSE fail([e |-> "UncountableVariable", var |-> var, kind |-> kind])
          [] p \in {"True", "TrueGlobal"} ->
                IF kind.k = "Boolean" THEN put([kind EXCEPT !.v = TRUE])
                ELSE fail([e |-> "UncountableVariable", var |-> var, kind |-> kind])
          [] p \in {"False", "FalseGlobal"} ->
                IF kind.k = "Boolean" THEN put([kind EXCEPT !.v = FALSE])
                ELSE fail([e |-> "UncountableVariable", var |-> var, kind |-> kind])

RECURSIVE parse_parameters_from(_, _, _, _, _, _, _)
parse_parameters_from(parameters, k, s, node, value, bus, toks) ==
    IF k > Len(parameters) THEN PRes("Ok", NoError, node, s, bus)
    ELSE LET r == parse_parameter(parameters[k], s, node, value, bus, toks)
         IN  IF r.tag # "Ok" THEN r
             ELSE parse_parameters_from(parameters, k + 1, r.s, r.node, value, r.bus, toks)

parse_parameters(parameters, s, node, value, bus, toks) ==
    parse_parameters_from(parameters, 1, s, node, value, bus, toks)

(***************************************************************************)
(* Results of parse_node (NRes), parse_rules (RRes) and of one rule of the *)
(* rule loop (XRes: the message bus and the `advance` flag after the rule).*)
(***************************************************************************)
NRes(tag, node, e, s) == [tag |-> tag, node |-> node, err |-> e, s |-> s]
RRes(tag, msg, e, node, s) == [tag |-> tag, msg |-> msg, err |-> e, node |-> node, s |-> s]
XRes(tag, e, node, s, bus, advance) ==
    [tag |-> tag, err |-> e, node |-> node, s |-> s, bus |-> bus, advance |-> advance]

\* err(): resets the cursor to the node's entry snapshot and raises
err(error, s, cursor_clone, location, node) ==
    [e |-> ParseError(error, location, node), s |-> SetCursor(s, cursor_clone)]

\* `err.node` is Some(node) with node.harderror set
node_harderror(e) == e.node # None /\ e.node[1].harderror

\* a restore that rewinds to the start of the input instead of the snapshot
restore_to_start(s, cursor_clone) == SetCursor(s, Cursor(0, FALSE))

\* a restore that takes the globals back to their initial values as well
restore_globals(s, cursor_clone) ==
    [SetCursor(s, cursor_clone) EXCEPT
        !.globals = variables_from_grammar([x \in DOMAIN s.globals |-> s.globals[x].k])]

\* parse_node's error path: `*cursor = cursor_clone`
restore(s, cursor_clone) == SetCursor(s, cursor_clone)

\* a match that raises every failure of a child node, committed or not
node_outcome_always_hard(n) ==
    CASE n.tag = "Ok" -> MIs(NodesNode(n.node), n.s)
      [] n.tag = "Err" -> MErr(n.err, n.s)
      [] OTHER -> MAbort(n.tag, n.s)

\* MatchToken::Node: what match_token makes of the result of parse_node
node_outcome(n) ==
    CASE n.tag = "Ok" -> MIs(NodesNode(n.node), n.s)
      [] n.tag = "Err" -> IF n.node.harderror THEN MErr(n.err, n.s) ELSE MIsNot(n.err, n.s)
      [] OTHER -> MAbort(n.tag, n.s)

\* a hint taken from the last Hint parameter of the rule
RECURSIVE last_hint(_, _)
last_hint(parameters, k) ==
    IF k > Len(parameters) THEN None
    ELSE IF last_hint(parameters, k + 1) # None THEN last_hint(parameters, k + 1)
    ELSE IF parameters[k].p = "Hint" THEN Some(parameters[k].text)
    ELSE None

\* the first Hint(text) among the parameters of a rule, from the k-th on
RECURSIVE first_hint(_, _)
first_hint(parameters, k) ==
    IF k > Len(parameters) THEN None
    ELSE IF parameters[k].p = "Hint" THEN Some(parameters[k].text)
    ELSE first_hint(parameters, k + 1)

\* the error of a failed match, with the hint of the rule recorded on it
hinted(parameters, e) ==
    IF first_hint(parameters, 1) = None THEN e
    ELSE [kind |-> e.kind, location |-> e.location, node |-> e.node,
          hint |-> first_hint(parameters, 1)[1]]

\* the hint an error carries, if any
hint_of(e) == IF "hint" \in DOMAIN e THEN Some(e.hint) ELSE None

\* history: what a rule did with a match that failed
Swallow(s, type, node, e) == Log(s, [ev |-> "swallow", rule |-> type, node |-> node.name, err |-> e])
Raise(s, type, node, e) == Log(s, [ev |-> "raise", rule |-> type, node |-> node.name, err |-> e])

\* a label search that finds nothing
find_label_blind(rules, label, j) == Len(rules)

RECURSIVE find_label(_, _, _)
find_label(rules, label, j) ==
    IF j >= Len(rules) THEN j
    ELSE IF rules[j + 1].type = "Command" /\ rules[j + 1].command.c = "Label"
            /\ rules[j + 1].command.name = label THEN j
    ELSE find_label(rules, label, j + 1)

\* the message drain at the end of one iteration of the rule loop
RECURSIVE drain(_, _, _)
drain(bus, i, rules) ==
    IF bus = <<>> THEN [ret |-> FALSE, msg |-> MsgOk, i |-> i]
    ELSE LET msg == bus[Len(bus)]
             rest == SubSeq(bus, 1, Len(bus) - 1)
         IN  CASE msg.m = "Return" -> [ret |-> TRUE, msg |-> MsgReturn, i |-> i]
               [] msg.m = "Break" ->
                    [ret |-> TRUE, msg |-> IF msg.n = 1 THEN MsgOk ELSE MsgBreak(msg.n - 1), i |-> i]
               [] msg.m = "Goto" ->
                    LET j == find_label(rules, msg.label, 0)
                    IN  IF j >= Len(rules) THEN [ret |-> TRUE, msg |-> msg, i |-> i]
                        ELSE drain(rest, j, rules)
               [] msg.m = "Back" ->
                    IF i < msg.n THEN [ret |-> TRUE, msg |-> MsgBack(msg.n - i), i |-> i]
                    ELSE drain(rest, i - msg.n, rules)
               [] msg.m = "Ok" -> drain(rest, i, rules)

\* a comparison that only tells identical values from different ones
comparisons_by_value(left, right) ==
    IF left.k = right.k /\ left.v = right.v THEN {"Equal"} ELSE {"NotEqual"}

\* Commands::Compare: the set of comparisons that hold between two variables
comparisons(left, right) ==
    CASE left.k = "Node" ->
            IF right.k = "Node"
            THEN IF left.v = None /\ right.v = None THEN {"Equal"}
                 ELSE IF left.v = None \/ right.v = None THEN {"NotEqual"}
                 ELSE IF left.v[1].t = "Node" /\ right.v[1].t = "Node"
                 THEN (IF left.v[1].node.name = right.v[1].node.name
                       THEN {"Equal"} ELSE {"NotEqual"})
                 ELSE IF left.v[1].t = "Token" /\ right.v[1].t = "Token"
                 THEN (IF left.v[1].tok = right.v[1].tok THEN {"Equal"} ELSE {"NotEqual"})
                 ELSE {"NotEqual"}
            ELSE {"NotEqual"}
      [] left.k = "NodeList" -> {"NotEqual"}
      [] left.k = "Boolean" ->
            IF right.k = "Boolean" /\ left.v = right.v THEN {"Equal"} ELSE {"NotEqual"}
      [] left.k = "Number" ->
            IF right.k # "Number" THEN {"NotEqual"}
            ELSE IF left.v = right.v
            THEN {"Equal", "GreaterThanOrEqual", "LessThanOrEqual"}
            ELSE {"NotEqual"}
                 \cup (IF left.v > right.v THEN {"GreaterThan", "GreaterThanOrEqual"} ELSE {})
                 \cup (IF left.v < right.v THEN {"LessThan", "LessThanOrEqual"} ELSE {})

(***************************************************************************)
(* The recursive core: parse_node, parse_rules and match_token.            *)
(* `fuel` bounds the depth of the evaluation; a run that exhausts it ends  *)
(* with the outcome "Fuel" (the interpreter is still running).  Each step  *)
(* that continues from the result of a call is an operator of its own that *)
(* takes that result as a parameter.                                       *)
(***************************************************************************)
RECURSIVE parse_node(_, _, _, _, _, _)
RECURSIVE parse_rules(_, _, _, _, _, _, _, _)
RECURSIVE parse_rules_loop(_, _, _, _, _, _, _, _, _)
RECURSIVE exec_rule(_, _, _, _, _, _, _, _)
RECURSIVE on_match(_, _, _, _, _, _, _, _, _, _, _, _, _)
RECURSIVE run_block(_, _, _, _, _, _, _, _, _, _)
RECURSIVE match_token(_, _, _, _, _, _, _)
RECURSIVE match_enumerator(_, _, _, _, _, _, _, _, _)
RECURSIVE one_of(_, _, _, _, _, _, _, _, _, _, _, _)
RECURSIVE until_loop(_, _, _, _, _, _, _, _)
RECURSIVE until_one_of(_, _, _, _, _, _, _, _, _)

parse_rules(g, rules, s, cursor_clone, node, toks, txt, fuel) ==
    parse_rules_loop(g, rules, 0, s, cursor_clone, node, toks, txt, fuel)

\* the end of a rule's block: `self.parse_rules(rules, ..)?` and `msg_bus.send(msg)`
after_children(pr, bus, advance) ==
    IF pr.tag # "Ok" THEN XRes(pr.tag, pr.err, pr.node, pr.s, bus, advance)
    ELSE XRes("Ok", NoError, pr.node, pr.s, Append(bus, pr.msg), advance)

\* after `self.parse_parameters(..)?`: the pending advance and the child rules
after_parameters(g, rules, val, pp, cursor_clone, advance, toks, txt, fuel) ==
    IF pp.tag # "Ok" THEN XRes(pp.tag, pp.err, pp.node, pp.s, pp.bus, advance)
    ELSE after_children(parse_rules(g, rules,
                                    IF is_token(val) THEN SetToAdvance(pp.s, TRUE) ELSE pp.s,
                                    cursor_clone, pp.node, toks, txt, fuel),
                        pp.bus, advance)

\* the block run when a match succeeded: parameters, pending advance, children
on_match(g, type, parameters, rules, val, s, cursor_clone, node, bus, advance, toks, txt, fuel) ==
    after_parameters(g, rules, val,
                     parse_parameters(parameters,
                                      Log(s, [ev |-> "matched", rule |-> type,
                                              node |-> node.name, val |-> val]),
                                      node, val, bus, toks),
                     cursor_clone, advance, toks, txt, fuel)

\* a block of child rules run without a match (isnt blocks, Loop, Compare)
run_block(g, rules, s, cursor_clone, node, bus, advance, toks, txt, fuel) ==
    after_children(parse_rules(g, rules, s, cursor_clone, node, toks, txt, fuel), bus, advance)

\* one alternative of a OneOf loop, given the result m of its match
one_of_matched(g, type, alts, k, clear, m, cursor_clone, node, bus, toks, txt, fuel) ==
    CASE m.tag = "Is" ->
            [found |-> TRUE,
             x |-> on_match(g, type, alts[k].parameters, alts[k].rules, m.val, m.s,
                            cursor_clone, node, bus, TRUE, toks, txt, fuel)]
      [] m.tag = "IsNot" ->
            IF node_harderror(m.err)
            THEN [found |-> FALSE,
                  x |-> XRes("Err", m.err, node, Raise(m.s, type, node, m.err), bus, TRUE)]
            ELSE one_of(g, type, alts, k + 1, clear,
                        Swallow(IF clear /\ m.err.node = None
                                THEN SetToAdvance(m.s, FALSE) ELSE m.s,
                                type, node, m.err),
                        cursor_clone, node, bus, toks, txt, fuel)
      [] OTHER -> [found |-> FALSE, x |-> XRes(m.tag, m.err, node, m.s, bus, TRUE)]

\* a loop over the alternatives that gives up after the first one
one_of_only_first(g, type, alts, k, clear, s, cursor_clone, node, bus, toks, txt, fuel) ==
    IF k > 1 THEN [found |-> FALSE, x |-> XRes("Ok", NoError, node, s, bus, TRUE)]
    ELSE one_of_matched(g, type, alts, k, clear,
                        match_token(g, alts[k].token, s, cursor_clone, toks, txt, fuel),
                        cursor_clone, node, bus, toks, txt, fuel)

\* the `for OneOf {..} in alternatives` loop of IsOneOf / MaybeOneOf / UntilOneOf;
\* `clear` is the `cursor.to_advance = false` that only IsOneOf does
one_of(g, type, alts, k, clear, s, cursor_clone, node, bus, toks, txt, fuel) ==
    IF k > Len(alts) THEN [found |-> FALSE, x |-> XRes("Ok", NoError, node, s, bus, TRUE)]
    ELSE one_of_matched(g, type, alts, k, clear,
                        match_token(g, alts[k].token, s, cursor_clone, toks, txt, fuel),
                        cursor_clone, node, bus, toks, txt, fuel)

\* one turn of Rule::Until, given the result m of its match
until_matched(g, rule, m, cursor_clone, node, toks, txt, fuel) ==
    CASE m.tag = "IsNot" ->
            IF m.s.cursor.idx + 1 >= Len(toks)
            THEN XRes("Err", ParseError([e |-> "CouldNotFindToken", token |-> rule.token],
                                        TokenAt(toks, m.s.cursor.idx).index, Some(node)),
                      node, SetIdx(m.s, m.s.cursor.idx + 1), <<>>, TRUE)
            ELSE until_loop(g, rule,
                            SetIdx(Swallow(m.s, "Until", node, m.err), m.s.cursor.idx + 1),
                            cursor_clone, node, toks, txt, fuel)
      [] m.tag = "Is" ->
            IF m.s.cursor.idx >= Len(toks) THEN XRes("Panic", NoError, node, m.s, <<>>, TRUE)
            ELSE on_match(g, "Until", rule.parameters, rule.rules,
                          NodesToken(TokenAt(toks, m.s.cursor.idx)), m.s, cursor_clone,
                          node, <<>>, TRUE, toks, txt, fuel)
      [] OTHER -> XRes(m.tag, m.err, node, m.s, <<>>, TRUE)

\* a scan that steps over a token before every match
until_loop_skipping(g, rule, s, cursor_clone, node, toks, txt, fuel) ==
    until_matched(g, rule,
                  match_token(g, rule.token,
                              IF s.cursor.idx + 1 < Len(toks) THEN SetIdx(s, s.cursor.idx + 1)
                              ELSE s,
                              cursor_clone, toks, txt, fuel),
                  cursor_clone, node, toks, txt, fuel)

\* Rule::Until: `while let IsNot(_) = match_token(..)? { cursor.idx += 1; .. }`
until_loop(g, rule, s, cursor_clone, node, toks, txt, fuel) ==
    until_matched(g, rule, match_token(g, rule.token, s, cursor_clone, toks, txt, fuel),
                  cursor_clone, node, toks, txt, fuel)

\* one turn of Rule::UntilOneOf, given the result r of its `for` loop
until_one_of_next(g, alts, r, cursor_clone, toks, txt, fuel) ==
    IF r.found \/ r.x.tag # "Ok" THEN r.x
    ELSE until_one_of(g, alts, SetIdx(r.x.s, r.x.s.cursor.idx + 1), cursor_clone,
                      r.x.node, r.x.bus, toks, txt, fuel)

\* Rule::UntilOneOf: `while cursor.idx < tokens.len() { for ..; cursor.idx += 1 }`
until_one_of(g, alts, s, cursor_clone, node, bus, toks, txt, fuel) ==
    IF s.cursor.idx >= Len(toks)
    THEN XRes("Panic", NoError, node, s, bus, TRUE)
    ELSE until_one_of_next(g, alts,
                           one_of(g, "UntilOneOf", alts, 1, FALSE, s, cursor_clone, node, bus,
                                  toks, txt, fuel),
                           cursor_clone, toks, txt, fuel)

\* Rule::Is, given the result m of its match
rule_Is(g, rule, m, cursor_clone, node, toks, txt, fuel) ==
    CASE m.tag = "Is" ->
            on_match(g, "Is", rule.parameters, rule.rules, m.val, m.s, cursor_clone,
                     node, <<>>, TRUE, toks, txt, fuel)
      [] m.tag = "IsNot" ->
            XRes("Err", hinted(rule.parameters, m.err), node,
                 Raise(m.s, "Is", node, hinted(rule.parameters, m.err)), <<>>, TRUE)
      [] OTHER -> XRes(m.tag, m.err, node, m.s, <<>>, TRUE)

\* the error of Rule::Isnt on a match: `err(ExpectedToNotBe(..), cursor, cursor_clone, ..)`
expected_to_not_be(r, node) == XRes("Err", r.e, node, r.s, <<>>, TRUE)

\* Rule::Isnt, given the result m of its match
rule_Isnt(g, rule, m, cursor_clone, node, toks, txt, fuel) ==
    CASE m.tag = "Is" ->
            IF m.s.cursor.idx >= Len(toks) THEN XRes("Panic", NoError, node, m.s, <<>>, TRUE)
            ELSE expected_to_not_be(
                     err([e |-> "ExpectedToNotBe", found |-> TokenAt(toks, m.s.cursor.idx).kind],
                         m.s, cursor_clone, TokenAt(toks, m.s.cursor.idx).index, Some(node)),
                     node)
      [] m.tag = "IsNot" ->
            run_block(g, rule.rules, Swallow(m.s, "Isnt", node, m.err),
                      cursor_clone, node, <<>>, TRUE, toks, txt, fuel)
      [] OTHER -> XRes(m.tag, m.err, node, m.s, <<>>, TRUE)

\* Rule::Maybe, given the result m of its match
rule_Maybe(g, rule, m, cursor_clone, node, toks, txt, fuel) ==
    CASE m.tag = "Is" ->
            on_match(g, "Maybe", rule.parameters, rule.is, m.val, m.s, cursor_clone,
                     node, <<>>, TRUE, toks, txt, fuel)
      [] m.tag = "IsNot" ->
            IF node_harderror(m.err)
            THEN XRes("Err", hinted(rule.parameters, m.err), node,
                      Raise(m.s, "Maybe", node, hinted(rule.parameters, m.err)), <<>>, TRUE)
            ELSE run_block(g, rule.isnt, Swallow(m.s, "Maybe", node, m.err),
                           cursor_clone, node, <<>>, TRUE, toks, txt, fuel)
      [] OTHER -> XRes(m.tag, m.err, node, m.s, <<>>, TRUE)

\* a While that matches once and raises when its match fails
rule_While_once(g, rule, m, cursor_clone, node, toks, txt, fuel) ==
    rule_Is(g, rule, m, cursor_clone, node, toks, txt, fuel)

\* Rule::While, given the result m of its match
rule_While(g, rule, m, cursor_clone, node, toks, txt, fuel) ==
    CASE m.tag = "Is" ->
            on_match(g, "While", rule.parameters, rule.rules, m.val, m.s, cursor_clone,
                     node, <<>>, FALSE, toks, txt, fuel)
      [] m.tag = "IsNot" ->
            IF node_harderror(m.err)
            THEN XRes("Err", hinted(rule.parameters, m.err), node,
                      Raise(m.s, "While", node, hinted(rule.parameters, m.err)), <<>>, TRUE)
            ELSE XRes("Ok", NoError, node, Swallow(m.s, "While", node, m.err), <<>>, TRUE)
      [] OTHER -> XRes(m.tag, m.err, node, m.s, <<>>, TRUE)

\* Rule::IsOneOf, given the result r of its `for` loop
rule_IsOneOf(rule, r, cursor_clone, node, toks) ==
    IF r.found \/ r.x.tag # "Ok" THEN r.x
    ELSE IF r.x.s.cursor.idx >= Len(toks)
    THEN XRes("Panic", NoError, node, r.x.s, <<>>, TRUE)
    ELSE expected_to_not_be(
             err([e |-> "ExpectedOneOf",
                  expected |-> [k \in DOMAIN rule.tokens |-> rule.tokens[k].token],
                  found |-> TokenAt(toks, r.x.s.cursor.idx).kind],
                 r.x.s, cursor_clone, TokenAt(toks, r.x.s.cursor.idx).index, Some(node)),
             node)

\* Rule::MaybeOneOf, given the result r of its `for` loop
rule_MaybeOneOf(g, rule, r, cursor_clone, node, toks, txt, fuel) ==
    IF r.found \/ r.x.tag # "Ok" THEN r.x
    ELSE run_block(g, rule.isnt, r.x.s, cursor_clone, node, <<>>, TRUE, toks, txt, fuel)

\* the variable store a Compare operand names
store_of(var, s, node) == IF var.scope = "Local" THEN node.variables ELSE s.globals

\* the VariableNotFound error of Commands::Compare
compare_notfound(var, s, node, toks) ==
    IF s.cursor.idx >= Len(toks) THEN XRes("Panic", NoError, node, s, <<>>, TRUE)
    ELSE XRes("Err", ParseError([e |-> "VariableNotFound", var |-> var],
                                TokenAt(toks, s.cursor.idx).index, Some(node)),
              node, s, <<>>, TRUE)

\* Rule::Command
rule_Command(g, command, s, cursor_clone, node, toks, txt, fuel) ==
    CASE command.c = "Compare" ->
            IF command.left.name \notin DOMAIN store_of(command.left, s, node)
            THEN compare_notfound(command.left, s, node, toks)
            ELSE IF command.right.name \notin DOMAIN store_of(command.right, s, node)
            THEN compare_notfound(command.right, s, node, toks)
            ELSE IF command.comparison \in
                      comparisons(store_of(command.left, s, node)[command.left.name],
                                  store_of(command.right, s, node)[command.right.name])
            THEN run_block(g, command.rules, s, cursor_clone, node, <<>>, TRUE, toks, txt, fuel)
            ELSE XRes("Ok", NoError, node, s, <<>>, TRUE)
      [] command.c = "Error" ->
            IF s.cursor.idx >= Len(toks) THEN XRes("Panic", NoError, node, s, <<>>, TRUE)
            ELSE XRes("Err", ParseError([e |-> "Message", message |-> command.message],
                                        TokenAt(toks, s.cursor.idx).index, Some(node)),
                      node, s, <<>>, TRUE)
      [] command.c = "HardError" ->
            XRes("Ok", NoError, [node EXCEPT !.harderror = command.set], s, <<>>, TRUE)
      [] command.c = "Goto" ->
            XRes("Ok", NoError, node,
                 Log(s, [ev |-> "send", msg |-> MsgGoto(command.label), node |-> node.name]),
                 <<MsgGoto(command.label)>>, TRUE)
      [] command.c \in {"Label", "Print"} -> XRes("Ok", NoError, node, s, <<>>, TRUE)

\* one rule of the rule list: the `match rule { .. }` of parse_rules
exec_rule(g, rule, s, cursor_clone, node, toks, txt, fuel) ==
    CASE rule.type = "Is" ->
            rule_Is(g, rule, match_token(g, rule.token, s, cursor_clone, toks, txt, fuel),
                    cursor_clone, node, toks, txt, fuel)
      [] rule.type = "Isnt" ->
            rule_Isnt(g, rule, match_token(g, rule.token, s, cursor_clone, toks, txt, fuel),
                      cursor_clone, node, toks, txt, fuel)
      [] rule.type = "IsOneOf" ->
            rule_IsOneOf(rule,
                         one_of(g, "IsOneOf", rule.tokens, 1, TRUE, s, cursor_clone, node, <<>>,
                                toks, txt, fuel),
                         cursor_clone, node, toks)
      [] rule.type = "Maybe" ->
            rule_Maybe(g, rule, match_token(g, rule.token, s, cursor_clone, toks, txt, fuel),
                       cursor_clone, node, toks, txt, fuel)
      [] rule.type = "MaybeOneOf" ->
            rule_MaybeOneOf(g, rule,
                            one_of(g, "MaybeOneOf", rule.is_one_of, 1, FALSE, s, cursor_clone,
                                   node, <<>>, toks, txt, fuel),
                            cursor_clone, node, toks, txt, fuel)
      [] rule.type = "While" ->
            rule_While(g, rule, match_token(g, rule.token, s, cursor_clone, toks, txt, fuel),
                       cursor_clone, node, toks, txt, fuel)
      [] rule.type = "Until" -> until_loop(g, rule, s, cursor_clone, node, toks, txt, fuel)
      [] rule.type = "UntilOneOf" ->
            until_one_of(g, rule.tokens, s, cursor_clone, node, <<>>, toks, txt, fuel)
      [] rule.type = "Loop" ->
            run_block(g, rule.rules, s, cursor_clone, node, <<>>, FALSE, toks, txt, fuel)
      [] rule.type = "Debug" -> XRes("Ok", NoError, node, s, <<>>, TRUE)
      [] rule.type = "Command" ->
            rule_Command(g, rule.command, s, cursor_clone, node, toks, txt, fuel)

\* an advance that moves the cursor and leaves the flag set
pending_advance_keeping_flag(g, s, node, toks) ==
    IF ~s.cursor.to_advance THEN [tag |-> "Ok", err |-> NoError, s |-> s]
    ELSE [tag |-> "Ok", err |-> NoError,
          s |-> SetIdx(s, IF s.cursor.idx + 1 < Len(toks) THEN s.cursor.idx + 1
                          ELSE s.cursor.idx)]

\* the pending advance at the top of one iteration of the rule loop
pending_advance(g, s, node, toks) ==
    IF ~s.cursor.to_advance THEN [tag |-> "Ok", err |-> NoError, s |-> s]
    ELSE IF s.cursor.idx + 1 < Len(toks)
    THEN [tag |-> "Ok", err |-> NoError, s |-> SetCursor(s, Cursor(s.cursor.idx + 1, FALSE))]
    ELSE IF g.eof_error
    THEN [tag |-> "Err",
          err |-> ParseError([e |-> "Eof"], TokenAt(toks, s.cursor.idx).index, Some(node)),
          s |-> SetCursor(s, Cursor(s.cursor.idx + 1, FALSE))]
    ELSE [tag |-> "Ok", err |-> NoError, s |-> SetCursor(s, Cursor(s.cursor.idx, FALSE))]

\* the names of the Label commands of a rule list, by rule index ("" for other rules)
labels(rules) ==
    [j \in DOMAIN rules |->
        IF rules[j].type = "Command" /\ rules[j].command.c = "Label"
        THEN rules[j].command.name ELSE ""]

\* history: a drain that handled a control message, at rule index i of `rules`
Drained(s, bus, i, rules, d) ==
    IF \A k \in DOMAIN bus : bus[k] = MsgOk THEN s
    ELSE Log(s, [ev |-> "drain", bus |-> bus, i |-> i, labels |-> labels(rules),
                 ret |-> d.ret, msg |-> d.msg, to |-> d.i])

\* the end of one iteration of the rule loop, given the drained message bus d
after_drain(g, rules, i, r, d, cursor_clone, toks, txt, fuel) ==
    IF d.ret THEN RRes("Ok", d.msg, NoError, r.node, Drained(r.s, r.bus, i, rules, d))
    ELSE parse_rules_loop(g, rules, d.i, Drained(r.s, r.bus, i, rules, d), cursor_clone,
                          r.node, toks, txt, fuel - 1)

\* one iteration of the rule loop after the rule ran with result r
after_rule(g, rules, i, r, cursor_clone, toks, txt, fuel) ==
    IF r.tag # "Ok" THEN RRes(r.tag, MsgOk, r.err, r.node, r.s)
    ELSE after_drain(g, rules, IF r.advance THEN i + 1 ELSE i, r,
                     drain(r.bus, IF r.advance THEN i + 1 ELSE i, rules),
                     cursor_clone, toks, txt, fuel)

\* one iteration of the rule loop after the pending advance pa
after_advance(g, rules, i, pa, cursor_clone, node, toks, txt, fuel) ==
    IF pa.tag # "Ok" THEN RRes(pa.tag, MsgOk, pa.err, node, pa.s)
    ELSE after_rule(g, rules, i,
                    exec_rule(g, rules[i + 1], pa.s, cursor_clone, node, toks, txt, fuel - 1),
                    cursor_clone, toks, txt, fuel)

\* `while i < rules.len() { .. }` of parse_rules
parse_rules_loop(g, rules, i, s, cursor_clone, node, toks, txt, fuel) ==
    IF i >= Len(rules) THEN RRes("Ok", MsgOk, NoError, node, s)
    ELSE IF fuel = 0 THEN RRes("Fuel", MsgOk, NoError, node, s)
    ELSE after_advance(g, rules, i, pending_advance(g, s, node, toks),
                       cursor_clone, node, toks, txt, fuel)

\* a value that leaves the cursor where its failed match left it
enumerator_value_keeping_cursor(g, values, i, cursor_clone_local, m, cursor_clone, toks, txt, fuel) ==
    CASE m.tag = "Is" -> m
      [] m.tag = "IsNot" ->
            IF node_harderror(m.err) THEN MErr(m.err, m.s)
            ELSE match_enumerator(g, values, i + 1, cursor_clone_local,
                                  Log(m.s, [ev |-> "skip", err |-> m.err]),
                                  cursor_clone, toks, txt, fuel)
      [] OTHER -> m

\* one value of the enumerator, given the result m of its match
enumerator_value(g, values, i, cursor_clone_local, m, cursor_clone, toks, txt, fuel) ==
    CASE m.tag = "Is" -> m
      [] m.tag = "IsNot" ->
            IF node_harderror(m.err) THEN MErr(m.err, SetCursor(m.s, cursor_clone_local))
            ELSE match_enumerator(g, values, i + 1, cursor_clone_local,
                                  SetCursor(Log(m.s, [ev |-> "skip", err |-> m.err]),
                                            cursor_clone_local),
                                  cursor_clone, toks, txt, fuel)
      [] OTHER -> m

\* MatchToken::Enumerator: the `loop { .. }` over the enumerator's values
match_enumerator(g, values, i, cursor_clone_local, s, cursor_clone, toks, txt, fuel) ==
    IF i >= Len(values)
    THEN IF s.cursor.idx >= Len(toks) THEN MAbort("Panic", s)
         ELSE MIsNot(ParseError([e |-> "ExpectedOneOf", expected |-> values,
                                 found |-> TokenAt(toks, s.cursor.idx).kind],
                                TokenAt(toks, s.cursor.idx).index, None), s)
    ELSE enumerator_value(g, values, i, cursor_clone_local,
                          match_token(g, values[i + 1], s, cursor_clone, toks, txt, fuel),
                          cursor_clone, toks, txt, fuel)

\* history: the result r of matching `token` from state s
matched(token, s, r) ==
    [r EXCEPT !.s = Log(@, [ev |-> "match", token |-> token, tag |-> r.tag, val |-> r.val,
                            err |-> r.err, before |-> s.cursor, after |-> r.s.cursor])]

match_token(g, token, s, cursor_clone, toks, txt, fuel) ==
    matched(token, s,
            CASE token.m = "Token" -> match_token_Token(token.kind, s, toks)
              [] token.m = "Word" -> match_token_Word(token.word, s, toks, txt)
              [] token.m = "Any" -> match_token_Any(s, toks)
              [] token.m = "Node" ->
                    node_outcome(parse_node(g, token.name, s, toks, txt, fuel))
              [] token.m = "Enumerator" ->
                    IF token.name \notin DOMAIN g.enumerators
                    THEN IF s.cursor.idx >= Len(toks) THEN MAbort("Panic", s)
                         ELSE MErr(ParseError([e |-> "EnumeratorNotFound", name |-> token.name],
                                              TokenAt(toks, s.cursor.idx).index, None), s)
                    ELSE match_enumerator(g, g.enumerators[token.name].values, 0, s.cursor,
                                          Log(s, [ev |-> "snapshot"]), cursor_clone,
                                          toks, txt, fuel))

\* the token whose end closes a node that did not set its own end
last_token(cursor, toks) ==
    IF cursor.idx >= Len(toks) THEN toks[Len(toks)] ELSE TokenAt(toks, cursor.idx)

\* a node closed at the cursor whatever end it was given
closed_overwriting(node, cursor, toks) ==
    [node EXCEPT !.last_string_idx = last_token(cursor, toks).index
                                     + last_token(cursor, toks).len]

\* the node as parse_node returns it: `if node.last_string_idx == 0 { .. }`
closed(node, cursor, toks) ==
    IF node.last_string_idx = 0
    THEN [node EXCEPT !.last_string_idx = last_token(cursor, toks).index
                                          + last_token(cursor, toks).len]
    ELSE node

\* the error for a control message that reached the end of a node
unhandled(msg) ==
    CASE msg.m = "Break" -> [e |-> "CannotBreak", n |-> msg.n]
      [] msg.m = "Back" -> [e |-> "CannotGoBack", n |-> msg.n]
      [] msg.m = "Goto" -> [e |-> "LabelNotFound", label |-> msg.label]

\* the `match result { .. }` of parse_node, given the closed node
node_result(result, node, cursor_clone, toks) ==
    CASE result.tag = "Ok" /\ result.msg.m \in {"Ok", "Return"} ->
            NRes("Ok", node, NoError, result.s)
      [] result.tag = "Ok" /\ result.s.cursor.idx >= Len(toks) ->
            NRes("Panic", node, NoError, result.s)
      [] result.tag = "Ok" ->
            NRes("Err", node,
                 ParseError(unhandled(result.msg), TokenAt(toks, result.s.cursor.idx).index,
                            Some(node)),
                 result.s)
      [] result.tag = "Err" -> NRes("Err", node, result.err, restore(result.s, cursor_clone))
      [] OTHER -> NRes(result.tag, node, NoError, result.s)

\* history: the return of parse_node
node_exit(name, cursor_clone, ret) ==
    [ret EXCEPT !.s = Log(@, [ev |-> "node", name |-> name, tag |-> ret.tag,
                              node |-> ret.node,
                              harderror |-> ret.node.harderror, err |-> ret.err,
                              entry |-> cursor_clone, exit |-> ret.s.cursor])]

\* parse_node after its rules ran with `result`
node_end(name, cursor_clone, result, toks) ==
    node_exit(name, cursor_clone,
              node_result(result, closed(result.node, result.s.cursor, toks),
                          cursor_clone, toks))

parse_node(g, name, s, toks, txt, fuel) ==
    IF fuel = 0 THEN NRes("Fuel", NodeNew("<dummy node>"), NoError, s)
    ELSE IF name \notin DOMAIN g.nodes
    THEN NRes("Err", NodeNew("<dummy node>"),
              ParseError([e |-> "NodeNotFound", name |-> name], 0, None), s)
    ELSE IF s.cursor.idx >= Len(toks) THEN NRes("Panic", NodeNew(name), NoError, s)
    ELSE node_end(name, s.cursor,
                  parse_rules(g, g.nodes[name].rules, Log(s, [ev |-> "snapshot"]), s.cursor,
                              [from_grammar(g, name) EXCEPT
                                  !.first_string_idx = TokenAt(toks, s.cursor.idx).index],
                              toks, txt, fuel - 1),
                  toks)

(***************************************************************************)
(* Parser::parse: the top-level call with the EOF requirement.             *)
(***************************************************************************)
Result(tag, entry, e, s) ==
    [tag |-> tag, entry |-> entry, err |-> e, globals |-> s.globals,
     cursor |-> s.cursor, log |-> s.log]

\* the state parse starts from
start(g) ==
    [cursor |-> Cursor(0, FALSE), globals |-> variables_from_grammar(g.globals), log |-> <<>>]

\* the EOF requirement, with the cursor at idx after the trailing whitespace
eof_check(r, idx, toks) ==
    IF idx >= Len(toks) THEN Result("Panic", None, NoError, SetCursor(r.s, Cursor(idx, FALSE)))
    ELSE IF TokenAt(toks, idx).kind = Eof
    THEN Result("Ok", Some(r.node), NoError, SetCursor(r.s, Cursor(idx, FALSE)))
    ELSE Result("Err", None,
                ParseError([e |-> "MissingEof", found |-> TokenAt(toks, idx).kind],
                           TokenAt(toks, idx).index, Some(r.node)),
                SetCursor(r.s, Cursor(idx, FALSE)))

\* parse after the entry node returned r
parse_end(g, r, toks) ==
    IF r.tag = "Err" THEN Result("Err", None, r.err, r.s)
    ELSE IF r.tag # "Ok" THEN Result(r.tag, None, NoError, r.s)
    ELSE IF ~g.eof THEN Result("Ok", Some(r.node), NoError, r.s)
    ELSE eof_check(r, skip_whitespace(toks, IF r.s.cursor.to_advance THEN r.s.cursor.idx + 1
                                            ELSE r.s.cursor.idx),
                   toks)

\* a parse that takes the node "entry" when no entry is configured
parse_default_entry(g, toks, txt) ==
    parse_end(g, parse_node(g, "entry", start(g), toks, txt, MaxFuel), toks)

parse(g, toks, txt) ==
    IF g.entry = None
    THEN Result("Err", None, ParseError([e |-> "MissingEntry"], 0, None),
                [start(g) EXCEPT !.globals = <<>>])
    ELSE parse_end(g, parse_node(g, g.entry[1], start(g), toks, txt, MaxFuel), toks)

(***************************************************************************)
(* The grammar validator (src/src/grammar.rs, mod validator).  A parser is *)
(* the record of its lexer's token strings and its grammar; the result is  *)
(* threaded through the calls with the LostAndFound of the current node.   *)
(* Errors and warnings name their node; a panic of the validator is the    *)
(* tag "Panic".                                                            *)
(***************************************************************************)
max_chars == 3
Numeric == {"0", "1", "2", "3", "4", "5", "6", "7", "8", "9"}

LostAndFound == [lost_labels |-> <<>>, found_labels |-> <<>>, steps |-> 0]
ValidationResult == [tag |-> "Ok", errors |-> <<>>, warnings |-> <<>>, laf |-> LostAndFound]

error_push(res, e, of, node) ==
    [res EXCEPT !.errors = Append(@, [kind |-> [e |-> e, of |-> of], node |-> node])]
warning_push(res, e, of, node) ==
    [res EXCEPT !.warnings = Append(@, [kind |-> [e |-> e, of |-> of], node |-> node])]

Contains(seq, x) == \E i \in DOMAIN seq : seq[i] = x

\* a sequence of the elements of a set, in a fixed order
RECURSIVE InOrder(_)
InOrder(S) ==
    IF S = {} THEN <<>>
    ELSE <<CHOOSE x \in S : TRUE>> \o InOrder(S \ {CHOOSE x \in S : TRUE})

\* the checks of one registered token string
validate_token_string(tok, res) ==
    LET chars == Spelling[tok]
        r1 == IF Len(chars) > 0 /\ chars[1] \in Numeric
              THEN warning_push(res, "UnusualToken", <<tok, "StartsNumeric">>, None) ELSE res
        r2 == IF \E i \in DOMAIN chars : chars[i] \in Blank \cup LineEnd
              THEN warning_push(r1, "UnusualToken", <<tok, "ContainsWhitespace">>, None) ELSE r1
    IN  IF chars = <<>>
        THEN [error_push(res, "EmptyToken", "", None) EXCEPT !.tag = "Panic"]
        ELSE IF Len(chars) > max_chars
        THEN warning_push(r2, "UnusualToken", <<tok, "TooLong">>, None)
        ELSE r2

RECURSIVE validate_tokens_from(_, _, _)
validate_tokens_from(toks, k, res) ==
    IF k > Len(toks) \/ res.tag # "Ok" THEN res
    ELSE validate_tokens_from(toks, k + 1, validate_token_string(toks[k], res))

validate_tokens(lx, res) == validate_tokens_from(InOrder(lx), 1, res)

\* a validation that takes every registered-token name for registered
validate_token_trusting(token, node, parser, res) ==
    CASE token.m = "Node" /\ token.name \notin DOMAIN parser.grammar.nodes ->
            error_push(res, "NodeNotFound", token.name, Some(node))
      [] token.m = "Enumerator" /\ token.name \notin DOMAIN parser.grammar.enumerators ->
            error_push(res, "EnumeratorNotFound", token.name, Some(node))
      [] token.m = "Any" -> warning_push(res, "UsedDepricated", "Any", Some(node))
      [] OTHER -> res

validate_token(token, node, parser, res) ==
    CASE token.m = "Node" ->
            IF token.name \notin DOMAIN parser.grammar.nodes
            THEN error_push(res, "NodeNotFound", token.name, Some(node)) ELSE res
      [] token.m = "Enumerator" ->
            IF token.name \notin DOMAIN parser.grammar.enumerators
            THEN error_push(res, "EnumeratorNotFound", token.name, Some(node)) ELSE res
      [] token.m = "Any" -> warning_push(res, "UsedDepricated", "Any", Some(node))
      [] token.m = "Token" ->
            IF token.kind \in {Eof, Eol, Whitespace, Text} THEN res
            ELSE IF token.kind = "" THEN error_push(res, "EmptyToken", "", Some(node))
            ELSE IF token.kind \notin parser.lexer
            THEN error_push(res, "TokenNotFound", token.kind, Some(node))
            ELSE res
      [] OTHER -> res

\* VarKind::kind: the declared kind of a local or a global variable
var_kind(var, locals, globals) ==
    IF var.scope = "Local"
    THEN (IF var.name \in DOMAIN locals THEN Some(locals[var.name]) ELSE None)
    ELSE (IF var.name \in DOMAIN globals THEN Some(globals[var.name]) ELSE None)

\* the variable a parameter names, and the kinds the parameter can be used on
named(parameter) ==
    [scope |-> IF parameter.p \in {"Global", "IncrementGlobal", "TrueGlobal", "FalseGlobal"}
               THEN "Global" ELSE "Local",
     name |-> parameter.var]
usable(parameter) ==
    CASE parameter.p \in {"Set", "Global"} -> {"Node", "NodeList"}
      [] parameter.p \in {"Increment", "IncrementGlobal", "Decrement"} -> {"Number"}
      [] parameter.p \in {"True", "TrueGlobal", "False", "FalseGlobal"} -> {"Boolean"}

\* a validation that accepts a variable of any kind
validate_variable_any_kind(parameter, parser, node, res) ==
    IF var_kind(named(parameter), parser.grammar.nodes[node].variables, parser.grammar.globals) = None
    THEN error_push(res, "VariableNotFound", named(parameter), Some(node))
    ELSE res

validate_variable(parameter, parser, node, res) ==
    IF var_kind(named(parameter), parser.grammar.nodes[node].variables, parser.grammar.globals) = None
    THEN error_push(res, "VariableNotFound", named(parameter), Some(node))
    ELSE IF var_kind(named(parameter), parser.grammar.nodes[node].variables,
                 parser.grammar.globals)[1] \notin usable(parameter)
    THEN error_push(res, "CantUseVariable", named(parameter), Some(node))
    ELSE res

validate_back(parameter, node, res) ==
    IF parameter.n > res.laf.steps
    THEN error_push(warning_push(res, "UsedDepricated", "Back", Some(node)),
                    "CannotGoBackMoreThan", <<parameter.n, res.laf.steps>>, Some(node))
    ELSE warning_push(res, "UsedDepricated", "Back", Some(node))

validate_debug(parameter, parser, node, res) ==
    IF parameter.var # None
       /\ var_kind(parameter.var[1], parser.grammar.nodes[node].variables, parser.grammar.globals)
             = None
    THEN warning_push(error_push(res, "VariableNotFound", parameter.var[1], Some(node)),
                      "UsedDebug", "", Some(node))
    ELSE warning_push(res, "UsedDebug", "", Some(node))

validate_parameter(parameter, parser, node, res) ==
    CASE parameter.p \in {"Set", "Global", "Increment", "IncrementGlobal", "Decrement",
                          "True", "TrueGlobal", "False", "FalseGlobal"} ->
            validate_variable(parameter, parser, node, res)
      [] parameter.p = "Print" -> warning_push(res, "UsedPrint", "", Some(node))
      [] parameter.p = "Debug" -> validate_debug(parameter, parser, node, res)
      [] parameter.p = "Back" -> validate_back(parameter, node, res)
      [] parameter.p = "Goto" ->
            [res EXCEPT !.laf.lost_labels = Append(@, parameter.label)]
      [] OTHER -> res

RECURSIVE validate_parameters_from(_, _, _, _, _)
validate_parameters_from(parameters, k, parser, node, res) ==
    IF k > Len(parameters) THEN res
    ELSE validate_parameters_from(parameters, k + 1, parser, node,
                                  validate_parameter(parameters[k], parser, node, res))

validate_parameters(parameters, parser, node, res) ==
    validate_parameters_from(parameters, 1, parser, node, res)

\* the operand kinds and comparison of a Compare
validate_compare(command, parser, node, res) ==
    LET locals == parser.grammar.nodes[node].variables
        l == var_kind(command.left, locals, parser.grammar.globals)
        r == var_kind(command.right, locals, parser.grammar.globals)
        r1 == IF l = None THEN error_push(res, "VariableNotFound", command.left, Some(node))
              ELSE res
        r2 == IF r = None THEN error_push(r1, "VariableNotFound", command.right, Some(node))
              ELSE r1
    IN  IF l = None \/ r = None THEN r2
        ELSE IF l[1] = "Number" /\ r[1] = "Number" THEN r2
        ELSE IF /\ l[1] = r[1] /\ l[1] \in {"Boolean", "Node"}
                /\ command.comparison \in {"Equal", "NotEqual"}
        THEN r2
        ELSE error_push(r2, "ComparisonInvalid",
                        <<command.left, command.right, command.comparison>>, Some(node))

\* Commands::Label
found_label(name, node, res) ==
    [(IF Contains(res.laf.found_labels, name)
      THEN error_push(res, "DuplicateLabel", name, Some(node)) ELSE res)
     EXCEPT !.laf.found_labels = Append(@, name)]

set_steps(res, steps) == [res EXCEPT !.laf.steps = steps]

RECURSIVE validate_rule(_, _, _, _)
RECURSIVE validate_rules_from(_, _, _, _, _)
RECURSIVE validate_block_from(_, _, _, _, _)
RECURSIVE validate_ruleblock(_, _, _, _)
RECURSIVE validate_one_ofs(_, _, _, _, _)

validate_rule(rule, node, parser, res) ==
    CASE rule.type \in {"Is", "Isnt", "While", "Until"} ->
            validate_ruleblock(rule.rules, node, parser,
                validate_parameters(rule.parameters, parser, node,
                    validate_token(rule.token, node, parser, res)))
      [] rule.type = "Maybe" ->
            validate_ruleblock(rule.isnt, node, parser,
                validate_ruleblock(rule.is, node, parser,
                    validate_parameters(rule.parameters, parser, node,
                        validate_token(rule.token, node, parser, res))))
      [] rule.type \in {"IsOneOf", "UntilOneOf"} ->
            validate_one_ofs(rule.tokens, 1, node, parser, res)
      [] rule.type = "MaybeOneOf" ->
            validate_ruleblock(rule.isnt, node, parser,
                validate_one_ofs(rule.is_one_of, 1, node, parser, res))
      [] rule.type = "Loop" -> validate_ruleblock(rule.rules, node, parser, res)
      [] rule.type = "Command" /\ rule.command.c = "Compare" ->
            validate_rules_from(rule.command.rules, 1, node, parser,
                                validate_compare(rule.command, parser, node, res))
      [] rule.type = "Command" /\ rule.command.c = "Goto" ->
            [res EXCEPT !.laf.lost_labels = Append(@, rule.command.label)]
      [] rule.type = "Command" /\ rule.command.c = "Label" ->
            found_label(rule.command.name, node, res)
      [] rule.type = "Debug" ->
            IF rule.target # None
               /\ var_kind(rule.target[1], parser.grammar.nodes[node].variables,
                       parser.grammar.globals) = None
            THEN error_push(res, "VariableNotFound", rule.target[1], Some(node))
            ELSE res
      [] OTHER -> res

\* `for rule in rules { self.validate_rule(..) }`
validate_rules_from(rules, k, node, parser, res) ==
    IF k > Len(rules) THEN res
    ELSE validate_rules_from(rules, k + 1, node, parser,
                             validate_rule(rules[k], node, parser, res))

\* the rules of a block: each one is a step further from the start of the node
validate_block_from(ruleblock, k, node, parser, res) ==
    IF k > Len(ruleblock) THEN res
    ELSE validate_block_from(ruleblock, k + 1, node, parser,
                             validate_rule(ruleblock[k], node, parser,
                                           set_steps(res, res.laf.steps + 1)))

validate_ruleblock(ruleblock, node, parser, res) ==
    set_steps(validate_block_from(ruleblock, 1, node, parser, res), res.laf.steps)

\* the alternatives of IsOneOf, MaybeOneOf and UntilOneOf
validate_one_ofs(tokens, k, node, parser, res) ==
    IF k > Len(tokens) THEN res
    ELSE validate_one_ofs(tokens, k + 1, node, parser,
            validate_ruleblock(tokens[k].rules, node, parser,
                validate_parameters(tokens[k].parameters, parser, node,
                    validate_token(tokens[k].token, node, parser, res))))

\* LostAndFound::pass: the Gotos without a label, the labels without a Goto
RECURSIVE pass_lost(_, _, _)
pass_lost(k, node, res) ==
    IF k > Len(res.laf.lost_labels) THEN res
    ELSE pass_lost(k + 1, node,
                   IF Contains(res.laf.found_labels, res.laf.lost_labels[k]) THEN res
                   ELSE error_push(res, "LabelNotFound", res.laf.lost_labels[k], Some(node)))

RECURSIVE pass_found(_, _, _)
pass_found(k, node, res) ==
    IF k > Len(res.laf.found_labels) THEN res
    ELSE pass_found(k + 1, node,
                    IF Contains(res.laf.lost_labels, res.laf.found_labels[k]) THEN res
                    ELSE warning_push(res, "UnusedLabel", res.laf.found_labels[k], Some(node)))

laf_pass(node, res) == pass_found(1, node, pass_lost(1, node, res))

\* a validation that keeps one LostAndFound for all the nodes
validate_node_sharing(node, parser, res) ==
    laf_pass(node, validate_rules_from(parser.grammar.nodes[node].rules, 1, node, parser, res))

validate_node(node, parser, res) ==
    laf_pass(node,
             validate_rules_from(parser.grammar.nodes[node].rules, 1, node, parser,
                                 [res EXCEPT !.laf = LostAndFound]))

RECURSIVE validate_nodes_from(_, _, _, _)
validate_nodes_from(nodes, k, parser, res) ==
    IF k > Len(nodes) THEN res
    ELSE validate_nodes_from(nodes, k + 1, parser, validate_node(nodes[k], parser, res))

validate_grammar(parser, res) ==
    validate_nodes_from(InOrder(DOMAIN parser.grammar.nodes), 1, parser, res)

\* Validator::validate
validate(parser) ==
    IF validate_tokens(parser.lexer, ValidationResult).tag # "Ok"
    THEN validate_tokens(parser.lexer, ValidationResult)
    ELSE validate_grammar(parser, validate_tokens(parser.lexer, ValidationResult))

\* ValidationResult::pass and ValidationResult::success
pass(result) == result.errors = <<>>
success(result) == result.errors = <<>> /\ result.warnings = <<>>

(***************************************************************************)
(* Grammar construction: the builder functions of api.rs (mod ext).        *)
(***************************************************************************)
token(tok) == [m |-> "Token", kind |-> tok]
word(w) == [m |-> "Word", word |-> w]
text == [m |-> "Token", kind |-> Text]
whitespace == [m |-> "Token", kind |-> Whitespace]
any == [m |-> "Any"]
node(name) == [m |-> "Node", name |-> name]
enumerator(name) == [m |-> "Enumerator", name |-> name]
newline == [m |-> "Token", kind |-> Eol]
eof == [m |-> "Token", kind |-> Eof]

is(matches) == [type |-> "Is", token |-> matches, rules |-> <<>>, parameters |-> <<>>]
isnt(matches) == [type |-> "Isnt", token |-> matches, rules |-> <<>>, parameters |-> <<>>]
maybe(matches) ==
    [type |-> "Maybe", token |-> matches, parameters |-> <<>>, is |-> <<>>, isnt |-> <<>>]
while_(matches) == [type |-> "While", token |-> matches, rules |-> <<>>, parameters |-> <<>>]
until(matches) == [type |-> "Until", token |-> matches, rules |-> <<>>, parameters |-> <<>>]
loop_ == [type |-> "Loop", rules |-> <<>>]
maybe_one_of(options) == [type |-> "MaybeOneOf", is_one_of |-> options, isnt |-> <<>>]
is_one_of(options) == [type |-> "IsOneOf", tokens |-> options]
UntilOneOf(options) == [type |-> "UntilOneOf", tokens |-> options]
option(matches) == [token |-> matches, rules |-> <<>>, parameters |-> <<>>]
command(c) == [type |-> "Command", command |-> c]
goto(label) == command([c |-> "Goto", label |-> label])
label(identifier) == command([c |-> "Label", name |-> identifier])
commit(set) == command([c |-> "HardError", set |-> set])
error(message) == command([c |-> "Error", message |-> message])
local(name) == [scope |-> "Local", name |-> name]
global(name) == [scope |-> "Global", name |-> name]
compare(a, b, comp) ==
    command([c |-> "Compare", left |-> a, right |-> b, comparison |-> comp, rules |-> <<>>])

params(rule, ps) == [rule EXCEPT !.parameters = @ \o ps]
then(rule, set_rules) ==
    CASE rule.type = "Maybe" -> [rule EXCEPT !.is = @ \o set_rules]
      [] rule.type = "Command" -> [rule EXCEPT !.command.rules = @ \o set_rules]
      [] OTHER -> [rule EXCEPT !.rules = @ \o set_rules]
otherwise(rule, set_rules) == [rule EXCEPT !.isnt = @ \o set_rules]

Set(var) == [p |-> "Set", var |-> var]
Increment(var) == [p |-> "Increment", var |-> var]
Decrement(var) == [p |-> "Decrement", var |-> var]
Global(var) == [p |-> "Global", var |-> var]
True(var) == [p |-> "True", var |-> var]
False(var) == [p |-> "False", var |-> var]
Debug(var) == [p |-> "Debug", var |-> var]
HardError(value) == [p |-> "HardError", value |-> value]
NodeStart == [p |-> "NodeStart"]
NodeEnd == [p |-> "NodeEnd"]
Return == [p |-> "Return"]
Break(n) == [p |-> "Break", n |-> n]
Back(n) == [p |-> "Back", n |-> n]
Goto(l) == [p |-> "Goto", label |-> l]
Hint(txt) == [p |-> "Hint", text |-> txt]
IncrementGlobal(var) == [p |-> "IncrementGlobal", var |-> var]
TrueGlobal(var) == [p |-> "TrueGlobal", var |-> var]

(***************************************************************************)
(* Inputs: token streams as the lexer lays them out.  Every token carries  *)
(* its byte index and length in the text; the stream ends with one         *)
(* Control(EOF) token of length 0 whose index is the length of the text.   *)
(***************************************************************************)
foo == <<"f", "o", "o">>
bar == <<"x", "y">>

Lexemes ==
    << [kind |-> "a", chars |-> <<"a">>],
       [kind |-> "b", chars |-> <<"b">>],
       [kind |-> Whitespace, chars |-> <<" ">>],
       [kind |-> Eol, chars |-> <<"\n">>],
       [kind |-> Text, chars |-> foo],
       [kind |-> Text, chars |-> bar] >>

RECURSIVE SourceText(_)
SourceText(lx) == IF lx = <<>> THEN <<>> ELSE lx[1].chars \o SourceText(Tail(lx))

RECURSIVE LayOut(_, _)
LayOut(lx, index) ==
    IF lx = <<>> THEN << [kind |-> Eof, index |-> index, len |-> 0] >>
    ELSE << [kind |-> lx[1].kind, index |-> index, len |-> Len(lx[1].chars)] >>
         \o LayOut(Tail(lx), index + Len(lx[1].chars))

\* a maximal run of text is one Text token: no two Text tokens are adjacent
Lexable(lx) == \A i \in 1..(Len(lx) - 1) : ~(lx[i].kind = Text /\ lx[i + 1].kind = Text)

LexemeSeqs ==
    { lx \in UNION { [1..n -> {Lexemes[k] : k \in DOMAIN Lexemes}] : n \in 0..MaxLen } :
        Lexable(lx) }

(***************************************************************************)
(* Grammars.  Every grammar has the same library of child nodes and one    *)
(* enumerator; the rules of the entry node vary.                           *)
(***************************************************************************)
\* the token strings registered in the lexer of the parsers
Registered == {"a", "b"}

ta == token("a")
tb == token("b")

GNode(rules, variables) == [rules |-> rules, variables |-> variables]

NoVars == <<>>
EntryVars == ("v" :> "Node") @@ ("l" :> "NodeList") @@ ("n" :> "Number") @@ ("f" :> "Boolean")

Library ==
    \* commits after its first token, then requires a second one
    ("X" :> GNode(<<params(is(ta), <<HardError(TRUE)>>), is(tb)>>, NoVars))
    \* an uncommitted node around the committed node X
 @@ ("Y" :> GNode(<<params(is(node("X")), <<Set("v")>>)>>, ("v" :> "Node")))
    \* never commits; fails after consuming a token
 @@ ("U" :> GNode(<<params(is(ta), <<Set("v")>>), is(tb)>>, ("v" :> "Node")))
    \* commits, then withdraws the commit
 @@ ("V" :> GNode(<<params(is(ta), <<HardError(TRUE)>>), commit(FALSE), is(tb)>>, NoVars))
    \* commits; its failure is raised by IsOneOf
 @@ ("W" :> GNode(<<params(is(ta), <<HardError(TRUE)>>), is_one_of(<<option(tb)>>)>>, NoVars))
    \* an uncommitted node around the committed node W
 @@ ("YW" :> GNode(<<is(node("W"))>>, NoVars))
    \* explicit span: start at the first token, end at the last
 @@ ("S" :> GNode(<<params(is(ta), <<NodeStart>>), params(is(tb), <<NodeEnd>>)>>, NoVars))
    \* explicit span applied in the other order
 @@ ("R" :> GNode(<<params(is(ta), <<NodeEnd>>), is(tb), params(is(ta), <<NodeStart>>)>>,
                  NoVars))
    \* control messages nobody handles
 @@ ("BR" :> GNode(<<is(ta), params(is(tb), <<Break(2)>>)>>, NoVars))
 @@ ("GT" :> GNode(<<is(ta), params(is(tb), <<Goto("nowhere")>>)>>, NoVars))
 @@ ("BK" :> GNode(<<is(ta), params(is(tb), <<Back(3)>>)>>, NoVars))
    \* an optional child and nothing else
 @@ ("M" :> GNode(<<params(maybe(node("U")), <<Set("v")>>)>>, ("v" :> "Node")))

Enumerators ==
    ("ab" :> [values |-> <<ta, tb>>])
 @@ ("ctl" :> [values |-> <<node("BR"), node("GT"), node("BK")>>])

Grammar(rules, eof_required, eof_error) ==
    [nodes |-> ("entry" :> GNode(rules, EntryVars)) @@ Library,
     enumerators |-> Enumerators,
     globals |-> ("g" :> "NodeList"),
     eof |-> eof_required,
     entry |-> Some("entry"),
     eof_error |-> eof_error]

set(rule, var) == params(rule, <<Set(var)>>)

\* rules made of token and word matches only
Atoms ==
    << set(is(ta), "l"),
       set(is(tb), "l"),
       set(is(word(foo)), "l"),
       set(maybe(ta), "l"),
       set(while_(tb), "l"),
       isnt(tb),
       set(until(tb), "l"),
       is_one_of(<<set(option(word(bar)), "l"), set(option(tb), "l")>>),
       set(is(enumerator("ab")), "l"),
       is(eof) >>

AtomEntries ==
    { <<Atoms[i]>> : i \in DOMAIN Atoms }
      \cup { <<Atoms[i], Atoms[j]>> : i, j \in DOMAIN Atoms }

\* an optional child with a marker in each branch: the `is` branch commits
\* the entry node, the `isnt` branch stores the token under the cursor
Optional(name) ==
    otherwise(then(set(maybe(node(name)), "v"), <<commit(TRUE)>>), <<set(is(any), "l")>>)

\* rules that match child nodes, whitespace or anything
Scenarios ==
    << <<otherwise(set(maybe(node("X")), "v"), <<set(is(any), "l")>>)>>,
       <<otherwise(set(maybe(node("Y")), "v"), <<set(is(any), "l")>>)>>,
       <<set(is(whitespace), "l"), set(is(ta), "l")>>,
       <<Optional("U")>>,
       <<Optional("V")>>,
       <<set(while_(node("U")), "l")>>,
       <<set(while_(node("W")), "l")>>,
       <<set(while_(node("YW")), "l")>>,
       <<maybe(enumerator("ctl"))>>,
       <<set(is(node("S")), "v")>>,
       <<set(is(node("R")), "v")>>,
       <<set(is(node("S")), "v"), params(is(ta), <<NodeStart>>)>>,
       <<is(ta), is(ta), set(is(node("M")), "v")>> >>

\* alternatives: the second one matches whatever the first and the third match
OneOfAny ==
    << is_one_of(<<set(option(ta), "v"), params(option(any), <<True("f")>>),
                   set(option(tb), "l")>>) >>

\* two alternatives that exclude each other
OneOfAB == << is_one_of(<<set(option(ta), "v"), set(option(tb), "l")>>) >>

\* optional alternatives: children under the first one, a counter in the isnt block
MaybeOneOfAB ==
    << otherwise(maybe_one_of(<<[set(option(ta), "v") EXCEPT
                                     !.rules = <<params(is(any), <<True("f")>>)>>],
                                set(option(tb), "l")>>),
                 <<params(is(any), <<Increment("n")>>)>>) >>

\* a repetition followed by another rule
WhileAB == << set(while_(ta), "l"), set(is(tb), "v") >>

\* a scan with a child rule, followed by another rule
UntilA == << then(set(until(ta), "v"), <<set(is(any), "l")>>), params(is(any), <<True("f")>>) >>

\* a scan over two alternatives
UntilOneOfAB ==
    << UntilOneOf(<<set(option(ta), "v"), set(option(tb), "l")>>),
       params(is(any), <<True("f")>>) >>

\* three nested rule lists, each ending with a marker of its own: the innermost
\* one counts in n, the middle one sets f, the outermost one stores into l;
\* p0, p1 and p2 are the parameters of the first rule of each list
Nest(p0, p1, p2) ==
    << then(params(maybe(ta), p2),
            << then(params(maybe(tb), p1),
                    << params(is(any), p0), params(is(any), <<Increment("n")>>) >>),
               params(is(any), <<True("f")>>) >>),
       set(is(any), "l") >>

Depths == 1..4

\* a Return, after storing the matched token, in the first rule of one list
Returning == <<Set("v"), Return>>
\* the same in the middle list, with a Break sent by the same rule
ReturnBreak == Nest(<<>>, <<Set("v"), Return, Break(1)>>, <<>>)
Returns == { Nest(Returning, <<>>, <<>>), Nest(<<>>, Returning, <<>>),
             Nest(<<>>, <<>>, Returning), ReturnBreak }

Breaks == { Nest(<<Break(k)>>, <<>>, <<>>) : k \in Depths }

\* a Back on the second rule of the entry list
BackAt(k) == << params(is(ta), <<Increment("n")>>), params(is(tb), <<Back(k)>>) >>

\* a Back that the child list hands to the entry list
BackNested ==
    << params(is(ta), <<Increment("n")>>),
       then(maybe(tb), <<params(is(any), <<Back(2)>>)>>),
       params(is(any), <<True("f")>>) >>

Backs == { BackAt(k) : k \in 1..3 } \cup { BackNested }

\* a Goto to a label of the same list, of the enclosing list, of a nested list
GotoSame ==
    << params(is(ta), <<Goto("L")>>), params(is(any), <<Increment("n")>>), label("L"),
       set(is(any), "l") >>

GotoCommand ==
    << is(ta), goto("L"), params(is(any), <<Increment("n")>>), label("L"), set(is(any), "l") >>

GotoOuter ==
    << then(maybe(ta), << params(is(any), <<Goto("L")>>), params(is(any), <<Increment("n")>>) >>),
       params(is(any), <<True("f")>>), label("L"), set(is(any), "l") >>

GotoInner ==
    << params(is(ta), <<Goto("L")>>), then(maybe(any), <<label("L"), set(is(any), "l")>>) >>

Gotos == { GotoSame, GotoCommand, GotoOuter, GotoInner }

\* a loop whose body counts a token and breaks out of k lists
LoopBreak(k) ==
    << then(loop_, <<params(is(ta), <<Increment("n"), Break(k)>>)>>),
       params(is(any), <<True("f")>>) >>

\* a loop whose body only counts tokens
LoopPlain == << then(loop_, <<params(is(ta), <<Increment("n")>>)>>), params(is(any), <<True("f")>>) >>

Loops == { LoopBreak(1), LoopBreak(2), LoopPlain }

ControlFlow ==
    { OneOfAny, OneOfAB, MaybeOneOfAB, WhileAB, UntilA, UntilOneOfAB }
      \cup Returns \cup Breaks \cup Backs \cup Gotos \cup Loops

Entries == { Scenarios[k] : k \in DOMAIN Scenarios } \cup AtomEntries \cup ControlFlow

(***************************************************************************)
(* Grammars about variables: the entry node declares two variables of each *)
(* scalar kind, and two one-token child nodes join the library.            *)
(***************************************************************************)
VarVars == EntryVars @@ ("w" :> "Node") @@ ("m" :> "Number") @@ ("h" :> "Boolean")

VarNodes == ("A" :> GNode(<<is(ta)>>, NoVars)) @@ ("B" :> GNode(<<is(tb)>>, NoVars))

VarGrammar(rules) ==
    [Grammar(rules, FALSE, FALSE) EXCEPT
        !.nodes = ("entry" :> GNode(rules, VarVars)) @@ VarNodes @@ Library]

\* optional rules that give the variables the values the input decides
Preamble ==
    << params(maybe(ta), <<Set("v"), Increment("n"), True("f")>>),
       params(maybe(tb), <<Set("w"), Increment("m"), True("h")>>),
       params(maybe(word(foo)), <<Set("v"), Set("w")>>),
       set(maybe(node("A")), "v"),
       set(maybe(node("A")), "w"),
       set(maybe(node("B")), "w") >>

Comparison ==
    {"Equal", "NotEqual", "GreaterThan", "LessThan", "GreaterThanOrEqual", "LessThanOrEqual"}

\* the operand pairs: every pair of kinds, globals, undeclared names
Operands ==
    ({local("v"), local("l"), local("n"), local("f")}
        \X {local("w"), local("l"), local("m"), local("h")})
    \cup { <<global("g"), local("m")>>, <<local("n"), global("g")>>,
           <<local("z"), local("m")>>, <<local("n"), local("z")>>,
           <<global("z"), local("m")>>, <<local("z"), global("z")>> }

\* a Compare after the preamble; its children commit the entry node
CompareOn(lr, comp) ==
    Preamble \o << then(compare(lr[1], lr[2], comp), <<commit(TRUE)>>) >>

Compares == { CompareOn(lr, comp) : lr \in Operands, comp \in Comparison }

\* the Set parameters: every kind of local variable, an undeclared one, globals
Setting == { Set("v"), Set("l"), Set("n"), Set("f"), Set("z"), Global("g"), Global("z") }

\* two matches in a row: the first stores into every list and the Node
\* variable, the second applies the parameters ps to a token or to a child node
SetOn(tok, ps) ==
    << params(is(any), <<Set("v"), Set("l"), Global("g")>>), params(is(tok), ps) >>

Setters ==
    { SetOn(any, <<p, q>>) : p, q \in Setting }
      \cup { SetOn(node("A"), <<p>>) : p \in Setting }

\* the counting parameters, on a variable of every kind
Counting ==
    { Increment(x) : x \in {"v", "l", "f", "n"} } \cup { Decrement(x) : x \in {"v", "l", "f", "n"} }

\* a token counted up as often as it repeats, an optional one counted down,
\* then one counting parameter applied to whatever token follows
CountOn(p) ==
    << params(while_(ta), <<Increment("n")>>), params(maybe(tb), <<Decrement("n")>>),
       params(is(any), <<p>>) >>

Counters == { CountOn(p) : p \in Counting }

VarEntries == Compares \cup Setters \cup Counters

(***************************************************************************)
(* Grammars about hints: two rules in a row, each with one of the lists of *)
(* parameters below; the second one may match a child node whose own rule  *)
(* carries a hint.                                                         *)
(***************************************************************************)
HintLists ==
    { <<>>, <<Hint("h1")>>, <<Hint("h1"), Hint("h2")>>,
      <<Set("v"), Hint("h2"), Hint("h1")>>, <<Hint("h2"), Set("v")>> }

HintNodes ==
    ("H" :> GNode(<<params(is(tb), <<Hint("inner")>>)>>, NoVars))
 @@ ("B" :> GNode(<<is(tb)>>, NoVars))

HintGrammar(rules) ==
    [Grammar(rules, FALSE, FALSE) EXCEPT
        !.nodes = ("entry" :> GNode(rules, EntryVars)) @@ HintNodes @@ Library]

HintFirst == { params(r, h) : r \in {is(ta), maybe(ta), while_(ta)}, h \in HintLists }
HintSecond ==
    { params(r, h) : r \in {is(tb), is(node("H")), is(node("B")), maybe(node("YW")),
                            while_(node("YW"))},
                     h \in HintLists }
HintEntries == { <<r1, r2>> : r1 \in HintFirst, r2 \in HintSecond }

(***************************************************************************)
(* Grammars about enumerators: one rule matches an enumerator, after the   *)
(* start of the input or after one token; the values are tokens, words and *)
(* child nodes that fail after consuming a token or after committing.      *)
(***************************************************************************)
EnumEnumerators ==
    ("ab" :> [values |-> <<ta, tb>>])
 @@ ("ba" :> [values |-> <<tb, ta>>])
 @@ ("ua" :> [values |-> <<node("U"), ta>>])
 @@ ("xa" :> [values |-> <<tb, node("X"), ta>>])
 @@ ("txt" :> [values |-> <<word(foo), text>>])
 @@ ("none" :> [values |-> <<>>])

EnumGrammar(rules) == [Grammar(rules, FALSE, FALSE) EXCEPT !.enumerators = EnumEnumerators]

EnumNames == DOMAIN EnumEnumerators \cup {"nope"}
EnumRules ==
    { set(is(enumerator(e)), "l") : e \in EnumNames }
        \cup { set(maybe(enumerator(e)), "l") : e \in EnumNames }
EnumEntries == { <<r>> : r \in EnumRules } \cup { <<is(any), r>> : r \in EnumRules }

(***************************************************************************)
(* Grammars without Loop, Goto, Back and recursion: a While over a token,  *)
(* over Any, over the end of the input and over child nodes that match one *)
(* token, an optional token or nothing, alone or after one token.          *)
(***************************************************************************)
TermNodes ==
    ("A" :> GNode(<<is(ta)>>, NoVars))
 @@ ("O" :> GNode(<<maybe(ta)>>, NoVars))
 @@ ("E" :> GNode(<<>>, NoVars))

TermGrammar(rules, eof_error) ==
    [Grammar(rules, FALSE, eof_error) EXCEPT
        !.nodes = ("entry" :> GNode(rules, EntryVars)) @@ TermNodes,
        !.enumerators = ("ab" :> [values |-> <<ta, tb>>])]

TermMatches == {ta, any, eof, text, enumerator("ab"), node("A"), node("O"), node("E")}
TermRules ==
    { set(while_(t), "l") : t \in TermMatches }
        \cup { then(while_(t), <<maybe(tb)>>) : t \in TermMatches }
TermEntries ==
    { <<r>> : r \in TermRules } \cup { <<is(any), r>> : r \in TermRules }
        \cup { <<r, maybe(tb)>> : r \in TermRules }

(***************************************************************************)
(* Grammars about globals: the child node K updates three globals and a    *)
(* local variable on its first token and requires a second token; the      *)
(* entry node tries K as an option, repeatedly or as an alternative.       *)
(***************************************************************************)
GlobNodes ==
    ("K" :> GNode(<< params(is(ta), <<Global("g"), IncrementGlobal("c"), TrueGlobal("t"),
                                      Set("v")>>),
                     is(tb) >>,
                  ("v" :> "Node")))

GlobGrammar(rules) ==
    [Grammar(rules, FALSE, FALSE) EXCEPT
        !.nodes = ("entry" :> GNode(rules, EntryVars)) @@ GlobNodes,
        !.enumerators = ("k" :> [values |-> <<node("K"), ta>>]),
        !.globals = ("g" :> "NodeList") @@ ("c" :> "Number") @@ ("t" :> "Boolean")]

GlobEntries ==
    { << set(maybe(node("K")), "l"), set(maybe(any), "v") >>,
      << set(while_(node("K")), "l"), set(maybe(any), "v") >>,
      << set(maybe(node("K")), "l"), set(maybe(node("K")), "l"), set(maybe(any), "v") >>,
      << maybe_one_of(<<set(option(node("K")), "l"), set(option(ta), "v")>>), maybe(any) >>,
      << is_one_of(<<set(option(node("K")), "l"), set(option(any), "v")>>), maybe(any) >>,
      << set(is(enumerator("k")), "l"), maybe(any) >>,
      << set(maybe(any), "v"), set(maybe(node("K")), "l"), set(is(node("K")), "l") >> }

\* the same input with its Whitespace and end-of-line tokens removed
Kept(toks) == SelectSeq(SubSeq(toks, 1, Len(toks) - 1), LAMBDA t : ~is_whitespace(t.kind))
Stripped(toks, txt) ==
    [k \in DOMAIN Kept(toks) |->
        [kind |-> Kept(toks)[k].kind, chars |-> stringify(Kept(toks)[k], txt)]]

(***************************************************************************)
(* DynArena (src/src/arena.rs): a vector of versioned entries and a stack  *)
(* of freed indexes.  Indexes count from 0 as in the code.                 *)
(***************************************************************************)
DynKey(index, version) == [index |-> index, version |-> version]
DynEntry(data) == [version |-> 1, active |-> FALSE, data |-> data]

\* an update that keeps the version of the entry
update_keeping_version(self, data) == [self EXCEPT !.active = TRUE, !.data = data]

\* DynEntry::update
update(self, data) == [version |-> self.version + 1, active |-> TRUE, data |-> data]

DynArenaNew == [data |-> <<>>, garbage |-> <<>>]

gen_key(self, index) ==
    DynKey(index, IF index < Len(self.data) THEN self.data[index + 1].version ELSE 1)

\* DynArena::push: the arena after the push and the key it returns; a freed
\* index that is not an index of the vector is a panic
push(self, v) ==
    IF self.garbage # <<>>
    THEN LET index == self.garbage[Len(self.garbage)]
             popped == [self EXCEPT !.garbage = SubSeq(@, 1, Len(@) - 1)]
         IN  IF index >= Len(self.data) THEN [tag |-> "Panic", arena |-> popped, key |-> None]
             ELSE LET reused == [popped EXCEPT !.data[index + 1] = update(@, v)]
                  IN  [tag |-> "Ok", arena |-> reused, key |-> Some(gen_key(reused, index))]
    ELSE [tag |-> "Ok",
          arena |-> [self EXCEPT !.data = Append(@, [DynEntry(v) EXCEPT !.active = TRUE])],
          key |-> Some(gen_key(self, Len(self.data)))]

\* DynArena::delete
delete(self, key) ==
    [self EXCEPT !.garbage = Append(@, key.index),
                 !.data = [i \in DOMAIN @ |->
                              IF i = key.index + 1 THEN [@[i] EXCEPT !.active = FALSE]
                              ELSE @[i]]]

\* DynArena::get and DynArena::get_mut: the data the key resolves to
get(self, key) ==
    IF key.index < Len(self.data) /\ self.data[key.index + 1].version = key.version
    THEN Some(self.data[key.index + 1].data)
    ELSE None

get_mut(self, key) ==
    IF key.index < Len(self.data) /\ self.data[key.index + 1].version = key.version
    THEN Some(self.data[key.index + 1].data)
    ELSE None

(***************************************************************************)
(* The state machine: one parse of one input.                              *)
(***************************************************************************)
NoOutcome == [tag |-> "None"]

Init ==
    /\ lexer = Registered
    /\ \E rules \in Entries, e \in BOOLEAN : grammar = Grammar(rules, e, FALSE)
    /\ \E lx \in LexemeSeqs :
          /\ input_text = SourceText(lx)
          /\ input_tokens = LayOut(lx, 0)
    /\ pc = "ready"
    /\ outcome = NoOutcome
    /\ twin = NoOutcome
    /\ arena = DynArenaNew
    /\ issued = <<>>

\* Parser::parse on the input
Parse ==
    /\ pc = "ready"
    /\ pc' = "done"
    /\ outcome' = parse(grammar, input_tokens, input_text)
    /\ UNCHANGED <<lexer, grammar, input_text, input_tokens, twin, arena, issued>>

\* Parser::parse on the same input without its whitespace, for a grammar of
\* token and word matches
ParseTwin ==
    /\ pc = "done"
    /\ grammar.nodes["entry"].rules \in AtomEntries
    /\ Kept(input_tokens) # SubSeq(input_tokens, 1, Len(input_tokens) - 1)
    /\ Lexable(Stripped(input_tokens, input_text))
    /\ pc' = "twin"
    /\ twin' = parse(grammar, LayOut(Stripped(input_tokens, input_text), 0),
                     SourceText(Stripped(input_tokens, input_text)))
    /\ UNCHANGED <<lexer, grammar, input_text, input_tokens, outcome, arena, issued>>

Next == Parse \/ ParseTwin

Spec == Init /\ [][Next]_vars

(***************************************************************************)
(* Grammars for the validator: the entry node has one or two rules, each a *)
(* leaf at some depth of the rule tree; a second node declares a label of  *)
(* its own.                                                                *)
(***************************************************************************)
\* rules about labels
LabelLeaves ==
    { goto("L"), label("L"), label("M"), params(is(ta), <<Goto("L")>>),
      params(is(tb), <<Goto("M")>>) }

\* rules whose match names a node, an enumerator or a token
TokenLeaves ==
    { is(node("X")), is(node("nope")), is(enumerator("ab")), is(enumerator("nope")),
      is(token("zz")), is(token("")), is(tb), is(any), is(text), is(word(foo)) }

\* parameters about variables
VarParameters ==
    { Set("v"), Set("l"), Set("n"), Set("f"), Set("z"), Global("g"), Global("z"),
      Increment("n"), Increment("v"), Increment("z"), Decrement("n"), Decrement("l"),
      True("f"), True("n"), True("z"), False("f"), False("v"),
      Debug(Some(local("v"))), Debug(Some(local("z"))), Debug(Some(global("g"))),
      Debug(Some(global("v"))), Debug(None) }

VarLeaves == { params(is(ta), <<p>>) : p \in VarParameters }

\* a leaf as an alternative: a match becomes the alternative itself, a command
\* becomes the child of one
alternative(leaf) ==
    IF leaf.type = "Is"
    THEN [token |-> leaf.token, rules |-> <<>>, parameters |-> leaf.parameters]
    ELSE [token |-> ta, rules |-> <<leaf>>, parameters |-> <<>>]

\* the places of the rule tree a leaf can be at
Wrapped(leaf) ==
    { leaf,
      then(maybe(ta), <<leaf>>),
      otherwise(maybe(ta), <<leaf>>),
      then(loop_, <<leaf>>),
      then(until(ta), <<leaf>>),
      then(compare(local("n"), local("n"), "Equal"), <<leaf>>),
      is_one_of(<<option(ta), alternative(leaf)>>),
      maybe_one_of(<<alternative(leaf)>>),
      otherwise(maybe_one_of(<<option(ta)>>), <<leaf>>),
      UntilOneOf(<<alternative(leaf)>>),
      then(loop_, <<is(ta), then(maybe(ta), <<leaf>>)>>) }

Pieces(leaves) == UNION { Wrapped(leaf) : leaf \in leaves }

ValEntries ==
    { <<p, q>> : p, q \in Pieces(LabelLeaves) }
      \cup { <<p>> : p \in Pieces(TokenLeaves \cup VarLeaves) }
      \cup { <<p, q>> : p \in Wrapped(is(node("nope"))), q \in Pieces(TokenLeaves) }

ValGrammar(rules) ==
    [nodes |-> ("entry" :> GNode(rules, EntryVars))
            @@ ("other" :> GNode(<<label("L"), goto("L")>>, ("z" :> "Number")))
            @@ ("X" :> Library["X"]),
     enumerators |-> ("ab" :> Enumerators["ab"]),
     globals |-> ("g" :> "NodeList"),
     eof |-> FALSE,
     entry |-> Some("entry"),
     eof_error |-> FALSE]

\* the parses of the grammars about variables
\* a parser nobody gave an entry node
Unconfigured(g) == [g EXCEPT !.entry = None]

VarInit ==
    /\ lexer = Registered
    /\ \/ \E rules \in VarEntries : grammar = VarGrammar(rules)
       \/ \E rules \in Counters : grammar = Unconfigured(VarGrammar(rules))
    /\ \E lx \in LexemeSeqs :
          /\ input_text = SourceText(lx)
          /\ input_tokens = LayOut(lx, 0)
    /\ pc = "ready"
    /\ outcome = NoOutcome
    /\ twin = NoOutcome
    /\ arena = DynArenaNew
    /\ issued = <<>>

VarSpec == VarInit /\ [][Parse]_vars

\* the parses of a parser with and without `eof_error`
AdvanceInit ==
    /\ lexer = Registered
    /\ \E rules \in Entries, e \in BOOLEAN : grammar = Grammar(rules, FALSE, e)
    /\ \E lx \in LexemeSeqs :
          /\ input_text = SourceText(lx)
          /\ input_tokens = LayOut(lx, 0)
    /\ pc = "ready"
    /\ outcome = NoOutcome
    /\ twin = NoOutcome
    /\ arena = DynArenaNew
    /\ issued = <<>>

AdvanceSpec == AdvanceInit /\ [][Parse]_vars

\* the parses of the grammars about enumerators
EnumInit ==
    /\ lexer = Registered
    /\ \E rules \in EnumEntries : grammar = EnumGrammar(rules)
    /\ \E lx \in LexemeSeqs :
          /\ input_text = SourceText(lx)
          /\ input_tokens = LayOut(lx, 0)
    /\ pc = "ready"
    /\ outcome = NoOutcome
    /\ twin = NoOutcome
    /\ arena = DynArenaNew
    /\ issued = <<>>

EnumSpec == EnumInit /\ [][Parse]_vars

\* the parses of the grammars without loops
TermInit ==
    /\ lexer = Registered
    /\ \E rules \in TermEntries, e \in BOOLEAN : grammar = TermGrammar(rules, e)
    /\ \E lx \in LexemeSeqs :
          /\ input_text = SourceText(lx)
          /\ input_tokens = LayOut(lx, 0)
    /\ pc = "ready"
    /\ outcome = NoOutcome
    /\ twin = NoOutcome
    /\ arena = DynArenaNew
    /\ issued = <<>>

TermSpec == TermInit /\ [][Parse]_vars

\* the parses of the grammars about globals
GlobInit ==
    /\ lexer = Registered
    /\ \E rules \in GlobEntries : grammar = GlobGrammar(rules)
    /\ \E lx \in LexemeSeqs :
          /\ input_text = SourceText(lx)
          /\ input_tokens = LayOut(lx, 0)
    /\ pc = "ready"
    /\ outcome = NoOutcome
    /\ twin = NoOutcome
    /\ arena = DynArenaNew
    /\ issued = <<>>

GlobSpec == GlobInit /\ [][Parse]_vars

\* the parses of the grammars about hints
HintInit ==
    /\ lexer = Registered
    /\ \E rules \in HintEntries : grammar = HintGrammar(rules)
    /\ \E lx \in LexemeSeqs :
          /\ input_text = SourceText(lx)
          /\ input_tokens = LayOut(lx, 0)
    /\ pc = "ready"
    /\ outcome = NoOutcome
    /\ twin = NoOutcome
    /\ arena = DynArenaNew
    /\ issued = <<>>

HintSpec == HintInit /\ [][Parse]_vars

(***************************************************************************)
(* The lexer on its own: a text is lexed, then the text its tokens spell   *)
(* is lexed again.                                                         *)
(***************************************************************************)
Alphabet == {"a", "b", "c", " ", "\n"}
Texts == UNION { [1..n -> Alphabet] : n \in 0..(MaxLen + 1) }
TokenSets == { {}, {"a", "b"}, {"ab"}, {"a", "ab"}, {"ab", "b"}, {"abc"}, {"a", "abc"},
               {"ab", "ba"} }

LexInit ==
    /\ lexer \in TokenSets
    /\ input_text \in Texts
    /\ input_tokens = <<>>
    /\ grammar = Grammar(<<>>, FALSE, FALSE)
    /\ pc = "text"
    /\ outcome = NoOutcome
    /\ twin = NoOutcome
    /\ arena = DynArenaNew
    /\ issued = <<>>

\* Lexer::lex_utf8 on the text
Lex ==
    /\ pc = "text"
    /\ pc' = "lexed"
    /\ input_tokens' = lex_utf8(lexer, input_text)
    /\ UNCHANGED <<lexer, grammar, input_text, outcome, twin, arena, issued>>

\* Lexer::lex_utf8 on the text of the tokens
Relex ==
    /\ pc = "lexed"
    /\ pc' = "relexed"
    /\ twin' = [tag |-> "Lexed",
                tokens |-> lex_utf8(lexer, stringify_slice(input_tokens, input_text))]
    /\ UNCHANGED <<lexer, grammar, input_text, input_tokens, outcome, arena, issued>>

LexNext == Lex \/ Relex

LexSpec == LexInit /\ [][LexNext]_vars

(***************************************************************************)
(* The validator on its own: one validation of one parser.                 *)
(***************************************************************************)
ValInit ==
    /\ lexer \in {Registered, {"a"}}
    /\ \E rules \in ValEntries : grammar = ValGrammar(rules)
    /\ input_text = <<>>
    /\ input_tokens = <<>>
    /\ pc = "grammar"
    /\ outcome = NoOutcome
    /\ twin = NoOutcome
    /\ arena = DynArenaNew
    /\ issued = <<>>

\* Validator::validate on the parser, and ValidationResult::pass on its result
Validate ==
    /\ pc = "grammar"
    /\ pc' = "validated"
    /\ outcome' = [tag |-> validate([lexer |-> lexer, grammar |-> grammar]).tag,
                   errors |-> validate([lexer |-> lexer, grammar |-> grammar]).errors,
                   warnings |-> validate([lexer |-> lexer, grammar |-> grammar]).warnings,
                   pass |-> pass(validate([lexer |-> lexer, grammar |-> grammar]))]
    /\ UNCHANGED <<lexer, grammar, input_text, input_tokens, twin, arena, issued>>

ValSpec == ValInit /\ [][Validate]_vars

\* validation of a parser whose lexer registers the empty string as a token
EmptyInit ==
    /\ lexer \in {{""}, {"a", ""}, {"a", "b", ""}}
    /\ \E rules \in ValEntries : grammar = ValGrammar(rules)
    /\ input_text = <<>>
    /\ input_tokens = <<>>
    /\ pc = "grammar"
    /\ outcome = NoOutcome
    /\ twin = NoOutcome
    /\ arena = DynArenaNew
    /\ issued = <<>>

EmptySpec == EmptyInit /\ [][Validate]_vars

(***************************************************************************)
(* A DynArena in use: values are pushed and keys that were issued are      *)
(* deleted, in any order and any number of times; `issued` keeps every key *)
(* a push returned, with its value and whether it was passed to delete.    *)
(***************************************************************************)
ArenaValues == {"x", "y"}

ArenaInit ==
    /\ lexer = Registered
    /\ grammar = Grammar(<<>>, FALSE, FALSE)
    /\ input_text = <<>>
    /\ input_tokens = <<>>
    /\ pc = "arena"
    /\ outcome = NoOutcome
    /\ twin = NoOutcome
    /\ arena = DynArenaNew
    /\ issued = <<>>

\* arena.push(v)
Push ==
    /\ pc = "arena"
    /\ Len(issued) <= MaxLen
    /\ \E v \in ArenaValues :
          /\ push(arena, v).tag = "Ok"
          /\ arena' = push(arena, v).arena
          /\ issued' = Append(issued, [key |-> push(arena, v).key[1], value |-> v,
                                       deleted |-> FALSE])
    /\ UNCHANGED <<lexer, grammar, input_text, input_tokens, pc, outcome, twin>>

\* arena.delete(&key) with a key a push returned, deleted before or not
Delete ==
    /\ pc = "arena"
    /\ Len(arena.garbage) <= MaxLen
    /\ \E i \in DOMAIN issued :
          /\ arena' = delete(arena, issued[i].key)
          /\ issued' = [issued EXCEPT ![i].deleted = TRUE]
    /\ UNCHANGED <<lexer, grammar, input_text, input_tokens, pc, outcome, twin>>

ArenaNext == Push \/ Delete

ArenaSpec == ArenaInit /\ [][ArenaNext]_vars

(***************************************************************************)
(* The validator and the interpreter on the same parser: a grammar about   *)
(* labels is validated, then an input is parsed with it.                   *)
(***************************************************************************)
SoundEntries == { <<p, q>> : p, q \in Pieces(LabelLeaves) }
SoundInputs == { lx \in LexemeSeqs : \A k \in DOMAIN lx : lx[k].kind \in {"a", "b"} }

SoundInit ==
    /\ lexer = Registered
    /\ \E rules \in SoundEntries : grammar = ValGrammar(rules)
    /\ \E lx \in SoundInputs :
          /\ input_text = SourceText(lx)
          /\ input_tokens = LayOut(lx, 0)
    /\ pc = "grammar"
    /\ outcome = NoOutcome
    /\ twin = NoOutcome
    /\ arena = DynArenaNew
    /\ issued = <<>>

\* Parser::parse with the parser that was validated
ParseValidated ==
    /\ pc = "validated"
    /\ pc' = "parsed"
    /\ twin' = parse(grammar, input_tokens, input_text)
    /\ UNCHANGED <<lexer, grammar, input_text, input_tokens, outcome, arena, issued>>

SoundNext == Validate \/ ParseValidated

SoundSpec == SoundInit /\ [][SoundNext]_vars

(***************************************************************************)
(* Properties.  They are read off the finished parse: its result and the   *)
(* history of node parses, matches and cursor positions it went through.   *)
(***************************************************************************)
Done == pc # "ready"
History == outcome.log
Steps == DOMAIN History
EntryEvent == History[Len(History)]

\* C1: commit propagation.  Whenever a node fails while its commit flag is
\* set, the top-level parse returns that very error: no ancestor rule, at
\* any depth and across uncommitted intermediate nodes, swallows it.
C1_CommitPropagation ==
    Done =>
        \A i \in Steps :
            (History[i].ev = "node" /\ History[i].tag = "Err" /\ History[i].harderror)
                => (outcome.tag = "Err" /\ outcome.err = History[i].err)

\* C2: a token or word match that fails leaves the cursor where it was
\* before the call, also when whitespace precedes the mismatching token.
C2_FailedMatchKeepsCursor ==
    Done =>
        \A i \in Steps :
            (History[i].ev = "match" /\ History[i].token.m \in {"Token", "Word"}
                /\ History[i].tag = "IsNot")
                => History[i].after = History[i].before

\* C3: whenever parse_node returns an error of any kind, the cursor (index
\* and pending-advance flag) equals the snapshot taken on entry to the node.
C3_ErrorRestoresSnapshot ==
    Done =>
        \A i \in Steps :
            (History[i].ev = "node" /\ History[i].tag = "Err")
                => History[i].exit = History[i].entry

\* C4: cursor monotonicity.  Every node parse that returns successfully
\* leaves the cursor index at or after the index it was entered with, and in
\* a successful parse the index only ever decreases by going back to the
\* position of a snapshot taken earlier in that parse.
C4_CursorMonotonic ==
    Done =>
        /\ \A i \in Steps :
              (History[i].ev = "node" /\ History[i].tag = "Ok")
                  => History[i].exit.idx >= History[i].entry.idx
        /\ outcome.tag = "Ok" =>
              \A i \in Steps :
                  (i > 1 /\ History[i].at < History[i - 1].at)
                      => \E j \in 1..(i - 1) :
                            History[j].ev = "snapshot" /\ History[j].at = History[i].at

\* a successful parse in which a node moved the cursor forward and a failed
\* child was rolled back
C4_Witness ==
    /\ Done
    /\ outcome.tag = "Ok"
    /\ \E i \in Steps :
          History[i].ev = "node" /\ History[i].tag = "Ok"
              /\ History[i].exit.idx > History[i].entry.idx
    /\ \E i \in Steps : i > 1 /\ History[i].at < History[i - 1].at

\* the position the EOF check looks at: after the pending advance of the
\* entry node's exit cursor and the whitespace that follows
AfterEntry ==
    skip_whitespace(input_tokens,
                    IF EntryEvent.exit.to_advance THEN EntryEvent.exit.idx + 1
                    ELSE EntryEvent.exit.idx)

\* C5: EOF requirement.  With grammar.eof set, parse returns Ok exactly when
\* the entry node parsed and the token at the position after the pending
\* advance and the remaining whitespace is Control(EOF); when the entry node
\* parsed and that token is not EOF, it returns MissingEof with that token's
\* kind and location.  With grammar.eof unset, parse returns Ok exactly when
\* the entry node parsed.
C5_EofRequirement ==
    (Done /\ History # <<>> /\ EntryEvent.tag \in {"Ok", "Err"}) =>
        IF EntryEvent.tag = "Err" THEN outcome.tag = "Err" /\ outcome.err = EntryEvent.err
        ELSE IF ~grammar.eof THEN outcome.tag = "Ok"
        ELSE IF AfterEntry < Len(input_tokens)
                /\ TokenAt(input_tokens, AfterEntry).kind = Eof
        THEN outcome.tag = "Ok"
        ELSE /\ outcome.tag = "Err"
             /\ outcome.err.kind.e = "MissingEof"
             /\ AfterEntry < Len(input_tokens)
             /\ outcome.err.kind.found = TokenAt(input_tokens, AfterEntry).kind
             /\ outcome.err.location = TokenAt(input_tokens, AfterEntry).index

\* the rule list of the entry node and the entry node as it was returned
EntryRules == grammar.nodes["entry"].rules
EntryNode == EntryEvent.node
NodeEvents(name) == { i \in Steps : History[i].ev = "node" /\ History[i].name = name }
Recoverable(e) == e.node = None \/ ~e.node[1].harderror

\* C6: a node that fails with its commit flag unset (never committed, or
\* Commit(false) executed last) fails recoverably: match_token reports IsNot,
\* an enclosing Maybe or While swallows it, the Maybe runs its isnt-children
\* with no parameter of the failed match applied, the While ends without
\* error; a Maybe whose match succeeded runs only its is-children.
C6_UncommittedFailureRecoverable ==
    Done =>
        /\ \A i \in Steps :
              (History[i].ev = "node" /\ History[i].tag = "Err" /\ ~History[i].harderror
                  /\ i < Len(History))
                  => /\ History[i + 1].ev = "match"
                     /\ History[i + 1].token = node(History[i].name)
                     /\ History[i + 1].tag = "IsNot"
        /\ \A i \in Steps :
              (History[i].ev = "match" /\ History[i].token.m = "Node"
                  /\ History[i].tag = "IsNot" /\ Recoverable(History[i].err)
                  /\ History[i + 1].ev \in {"swallow", "raise"}
                  /\ History[i + 1].rule \in {"Maybe", "While"})
                  => History[i + 1].ev = "swallow"
        /\ \A name \in {"U", "V"} :
              EntryRules = <<Optional(name)>> =>
                  \A i \in NodeEvents(name) :
                      /\ EntryEvent.tag = "Ok"
                      /\ IF History[i].tag = "Ok"
                         THEN /\ EntryNode.variables["v"].v = Some(NodesNode(History[i].node))
                              /\ EntryNode.harderror
                              /\ EntryNode.variables["l"].v = <<>>
                         ELSE /\ EntryNode.variables["v"].v = None
                              /\ ~EntryNode.harderror
                              /\ EntryNode.variables["l"].v
                                    = <<NodesToken(TokenAt(input_tokens, 0))>>
        /\ EntryRules = <<set(while_(node("U")), "l")>> =>
              /\ EntryEvent.tag = "Ok"
              /\ Len(EntryNode.variables["l"].v)
                    = Cardinality({ i \in NodeEvents("U") : History[i].tag = "Ok" })

\* node V committed, withdrew the commit and failed; the Maybe around it ran
\* its isnt-children and the parse went on
C6_Witness ==
    /\ Done
    /\ EntryRules = <<Optional("V")>>
    /\ \E i \in NodeEvents("V") : History[i].tag = "Err" /\ ~History[i].harderror
    /\ outcome.tag = "Ok"
    /\ Len(outcome.entry[1].variables["l"].v) = 1

\* the child nodes stored in the variables of a node, and every node of a tree
Children(n) ==
    UNION { { n.variables[v].v[k].node :
                k \in { k \in DOMAIN n.variables[v].v : n.variables[v].v[k].t = "Node" } } :
            v \in { v \in DOMAIN n.variables : n.variables[v].k \in {"Node", "NodeList"} } }

RECURSIVE NodesIn(_)
NodesIn(n) == {n} \cup UNION { NodesIn(c) : c \in Children(n) }

\* C7: span ordering.  In the tree of every successful parse, every node has
\* first_string_idx <= last_string_idx <= len(text), whatever the order in
\* which NodeStart and NodeEnd were applied.
C7_SpanOrdering ==
    (Done /\ outcome.tag = "Ok") =>
        \A n \in NodesIn(outcome.entry[1]) :
            n.first_string_idx <= n.last_string_idx /\ n.last_string_idx <= Len(input_text)

\* C8: span nesting.  In the tree of every successful parse, the span of a
\* child node stored in a variable lies within the span of its parent.
C8_SpanNesting ==
    (Done /\ outcome.tag = "Ok") =>
        \A parent \in NodesIn(outcome.entry[1]) :
            \A child \in Children(parent) :
                /\ parent.first_string_idx <= child.first_string_idx
                /\ child.last_string_idx <= parent.last_string_idx

\* what a parse reports, without byte positions and error payloads: success or
\* the kind of the error, and the kind and text of the tokens stored in the
\* entry node
Stored(n, txt) ==
    [v \in DOMAIN n.variables |->
        IF n.variables[v].k \in {"Node", "NodeList"}
        THEN [k \in DOMAIN n.variables[v].v |->
                <<n.variables[v].v[k].tok.kind, stringify(n.variables[v].v[k].tok, txt)>>]
        ELSE n.variables[v].v]
Report(o, txt) ==
    [tag |-> o.tag, kind |-> o.err.kind.e,
     stored |-> IF o.tag = "Ok" THEN Stored(o.entry[1], txt) ELSE <<>>]

\* C9: whitespace transparency.  For a grammar of non-whitespace token and
\* word matches, the parse of an input and the parse of the same input with
\* its Whitespace and end-of-line tokens removed report the same result or
\* error kind and store the same tokens.
C9_WhitespaceTransparent ==
    pc = "twin" =>
        Report(outcome, input_text)
            = Report(twin, SourceText(Stripped(input_tokens, input_text)))

\* two tokens separated by a newline are stored by a successful parse
C9_Witness ==
    /\ pc = "twin"
    /\ outcome.tag = "Ok"
    /\ Len(outcome.entry[1].variables["l"].v) = 2
    /\ Len(input_tokens) = 4
    /\ input_tokens[2].kind = Eol

\* C10: a match that asks for Whitespace, made when the token under the
\* cursor is a Whitespace token, succeeds and yields that token.
C10_WhitespaceMatch ==
    Done =>
        \A i \in Steps :
            (History[i].ev = "match" /\ History[i].token = whitespace
                /\ ~History[i].before.to_advance
                /\ TokenAt(input_tokens, History[i].before.idx).kind = Whitespace)
                => /\ History[i].tag = "Is"
                   /\ History[i].val = NodesToken(TokenAt(input_tokens, History[i].before.idx))

(***************************************************************************)
(* Alternatives, repetition and scanning.                                  *)
(***************************************************************************)
\* the tokens of the input that are not whitespace; the last one is Eof
Significant == SelectSeq(input_tokens, LAMBDA t : ~is_whitespace(t.kind))
First == Head(Significant)
Var(name) == EntryNode.variables[name].v
Matches == { i \in Steps : History[i].ev = "match" }

\* C11: IsOneOf and MaybeOneOf try their alternatives in declaration order
\* and the first one that matches is the only one to take effect: its
\* parameters are applied, its children run, and no later alternative is
\* tried.  When none matches, IsOneOf fails with ExpectedOneOf listing every
\* alternative and MaybeOneOf runs its isnt-children once.
C11_OneOfOrder ==
    Done =>
        /\ EntryRules = OneOfAB =>
              CASE First.kind = "a" ->
                      /\ EntryEvent.tag = "Ok"
                      /\ Var("v") = Some(NodesToken(First)) /\ Var("l") = <<>>
                      /\ Cardinality(Matches) = 1
                [] First.kind = "b" ->
                      /\ EntryEvent.tag = "Ok"
                      /\ Var("v") = None /\ Var("l") = <<NodesToken(First)>>
                      /\ Cardinality(Matches) = 2
                [] OTHER ->
                      /\ EntryEvent.tag = "Err"
                      /\ EntryEvent.err.kind = [e |-> "ExpectedOneOf", expected |-> <<ta, tb>>,
                                                found |-> First.kind]
                      /\ Var("v") = None /\ Var("l") = <<>>
        /\ EntryRules = OneOfAny =>
              /\ EntryEvent.tag = "Ok"
              /\ Var("l") = <<>>
              /\ IF First.kind = "a"
                 THEN Var("v") = Some(NodesToken(First)) /\ ~Var("f") /\ Cardinality(Matches) = 1
                 ELSE Var("v") = None /\ Var("f") /\ Cardinality(Matches) = 2
        /\ EntryRules = MaybeOneOfAB =>
              /\ EntryEvent.tag = "Ok"
              /\ CASE First.kind = "a" ->
                      /\ Var("v") = Some(NodesToken(First)) /\ Var("l") = <<>>
                      /\ Var("f") /\ Var("n") = 0
                   [] First.kind = "b" ->
                      /\ Var("v") = None /\ Var("l") = <<NodesToken(First)>>
                      /\ ~Var("f") /\ Var("n") = 0
                   [] OTHER ->
                      /\ Var("v") = None /\ Var("l") = <<>>
                      /\ ~Var("f") /\ Var("n") = 1

\* the second alternative won although the third one matches the same token
C11_Witness ==
    /\ Done
    /\ EntryRules = OneOfAny
    /\ First.kind = "b"
    /\ Var("f")
    /\ Var("l") = <<>>

\* the number of tokens of `kind` at the head of a token sequence
RECURSIVE Leading(_, _)
Leading(seq, kind) ==
    IF seq = <<>> \/ Head(seq).kind # kind THEN 0 ELSE 1 + Leading(Tail(seq), kind)

\* the nodes that the successful parses of node `name` returned, in order
Parsed(name) ==
    LET ok == SelectSeq(History, LAMBDA e : e.ev = "node" /\ e.name = name /\ e.tag = "Ok")
    IN  [j \in DOMAIN ok |-> NodesNode(ok[j].node)]

\* C12: While applies its parameters once per successful match: after k
\* matches in a row and a recoverable failure the list holds the k matched
\* values in input order (k may be 0), the While raises nothing, and the
\* rule after the While runs next.
C12_WhileRepeats ==
    Done =>
        /\ EntryRules = WhileAB =>
              LET k == Leading(Significant, "a")
                  next == Significant[k + 1]
              IN  /\ Var("l") = [j \in 1..k |-> NodesToken(Significant[j])]
                  /\ IF next.kind = "b"
                     THEN EntryEvent.tag = "Ok" /\ Var("v") = Some(NodesToken(next))
                     ELSE /\ EntryEvent.tag = "Err"
                          /\ EntryEvent.err.kind = [e |-> "ExpectedToken", expected |-> "b",
                                                    found |-> next.kind]
                          /\ Var("v") = None
        /\ EntryRules = <<set(while_(node("U")), "l")>> =>
              /\ EntryEvent.tag = "Ok"
              /\ Var("l") = Parsed("U")

\* two matches in a row, then the rule after the While matched
C12_Witness ==
    /\ Done
    /\ EntryRules = WhileAB
    /\ Leading(Significant, "a") = 2
    /\ Len(Var("l")) = 2
    /\ Var("v") # None

\* the positions of the input that hold a token of one of the kinds
Positions(kinds) == { p \in 0..(Len(input_tokens) - 1) : TokenAt(input_tokens, p).kind \in kinds }
Least(ps) == CHOOSE p \in ps : \A q \in ps : p <= q

\* C13: Until moves the cursor a token at a time to the first position where
\* its match succeeds, applies its parameters to the token found there,
\* consumes it and runs its children; when no position up to the end of the
\* stream matches, the rule fails with CouldNotFindToken.
C13_UntilScans ==
    (Done /\ EntryRules = UntilA) =>
        IF Positions({"a"}) = {}
        THEN /\ EntryEvent.tag = "Err"
             /\ EntryEvent.err.kind = [e |-> "CouldNotFindToken", token |-> ta]
             /\ Var("v") = None /\ Var("l") = <<>> /\ ~Var("f")
        ELSE LET p == Least(Positions({"a"}))
             IN  /\ EntryEvent.tag = "Ok"
                 /\ Var("v") = Some(NodesToken(TokenAt(input_tokens, p)))
                 /\ Var("l") = <<NodesToken(TokenAt(input_tokens, p + 1))>>
                 /\ Var("f")

\* the scan passed two tokens before it found its match
C13_Witness ==
    /\ Done
    /\ EntryRules = UntilA
    /\ Positions({"a"}) = {2}
    /\ Var("v") = Some(NodesToken(TokenAt(input_tokens, 2)))

\* C14: UntilOneOf scans like Until over several alternatives: at each
\* position the alternatives are tried in declaration order and the first
\* that matches takes effect; when none matches at any position up to the
\* end of the stream the rule returns a parse error and does not read past
\* the end of the stream.
C14_UntilOneOfScans ==
    (Done /\ EntryRules = UntilOneOfAB) =>
        IF Positions({"a", "b"}) = {}
        THEN /\ outcome.tag = "Err"
             /\ EntryEvent.tag = "Err"
        ELSE LET found == TokenAt(input_tokens, Least(Positions({"a", "b"})))
             IN  /\ EntryEvent.tag = "Ok"
                 /\ Var("v") = IF found.kind = "a" THEN Some(NodesToken(found)) ELSE None
                 /\ Var("l") = IF found.kind = "b" THEN <<NodesToken(found)>> ELSE <<>>
                 /\ Var("f")

\* C15: on a token stream that ends with one Eof token every parse returns
\* Ok or a ParseError: no step indexes the token stream at or beyond its
\* length.
C15_NoReadPastEnd ==
    /\ Done => outcome.tag \in {"Ok", "Err"}
    /\ pc = "twin" => twin.tag \in {"Ok", "Err"}

(***************************************************************************)
(* Control messages: Return, Break, Goto, Back, and Loop.                  *)
(***************************************************************************)
\* the control messages sent by parameters and commands, in order
Sent == SelectSeq(History, LAMBDA e : e.ev = "send")
\* the drains that handled a control message, in order
Drains == SelectSeq(History, LAMBDA e : e.ev = "drain")

\* C16: a Return parameter, at any depth of nested rule lists, makes the node
\* return successfully: the rule that carries it and that rule's children
\* finish, no later rule of any enclosing list of the node runs, and the
\* variables set up to then are kept in the returned node.
C16_ReturnEndsNode ==
    (Done /\ EntryRules \in Returns) =>
        IF Sent = <<>>
        THEN Var("v") = None /\ (EntryEvent.tag = "Ok" => Var("l") # <<>>)
        ELSE /\ Sent[1].msg = MsgReturn
             /\ EntryEvent.tag = "Ok"
             /\ Var("l") = <<>>
             /\ CASE EntryRules = Nest(Returning, <<>>, <<>>) ->
                        /\ Var("v") = Some(NodesToken(TokenAt(input_tokens, Sent[1].at)))
                        /\ Var("n") = 0 /\ ~Var("f")
                  [] EntryRules = Nest(<<>>, Returning, <<>>) ->
                        /\ Var("v") = Some(NodesToken(Significant[2]))
                        /\ Var("n") = 1 /\ ~Var("f")
                  [] EntryRules = Nest(<<>>, <<>>, Returning) ->
                        /\ Var("v") = Some(NodesToken(First))
                        /\ Var("n") = (IF Significant[2].kind = "b" THEN 1 ELSE 0)
                        /\ Var("f")
                  [] EntryRules = ReturnBreak ->
                        /\ Var("v") = Some(NodesToken(Significant[2]))
                        /\ Var("n") = 1 /\ ~Var("f")

\* the message a drain handles first: the newest one on the bus that is not Msg::Ok
Newest(bus) ==
    LET pending == SelectSeq(bus, LAMBDA m : m.m # "Ok")
    IN  pending[Len(pending)]

\* C17: Break(n), n >= 1, ends the rule list that drains it at once: for
\* n = 1 the list returns as if it had completed, for n > 1 it hands
\* Break(n - 1) to the enclosing list, so that exactly the n innermost lists
\* end; a Break(m) that the top-level list of the node would still hand on
\* makes the node fail with CannotBreak(m).
C17_BreakEndsLists ==
    Done =>
        /\ \A j \in DOMAIN Drains :
              Newest(Drains[j].bus).m = "Break" =>
                  /\ Drains[j].ret
                  /\ Drains[j].msg = IF Newest(Drains[j].bus).n = 1
                                     THEN [m |-> "Ok", n |-> 0, label |-> ""]
                                     ELSE [m |-> "Break", n |-> Newest(Drains[j].bus).n - 1,
                                           label |-> ""]
        /\ (EntryRules \in Breaks /\ Sent # <<>>) =>
              LET k == EntryRules[1].is[1].is[1].parameters[1].n
              IN  /\ Sent = <<[ev |-> "send", msg |-> [m |-> "Break", n |-> k, label |-> ""],
                               node |-> "entry", at |-> Sent[1].at]>>
                  /\ Len(Drains) = IF k <= 3 THEN k ELSE 3
                  /\ Var("n") = 0
                  /\ Var("f") = (k < 2)
                  /\ (Var("l") # <<>>) = (k < 3)
                  /\ IF k <= 3 THEN EntryEvent.tag = "Ok"
                     ELSE /\ EntryEvent.tag = "Err"
                          /\ EntryEvent.err.kind = [e |-> "CannotBreak", n |-> k - 3]
        /\ (EntryRules \in Breaks /\ Sent = <<>> /\ EntryEvent.tag = "Ok") => Var("l") # <<>>

\* a Break(2) sent in the innermost of three lists ended two of them
C17_Witness ==
    /\ Done
    /\ EntryRules = Nest(<<Break(2)>>, <<>>, <<>>)
    /\ Len(Drains) = 2
    /\ ~Var("f")
    /\ Var("l") # <<>>

\* the messages of a bus that are not Msg::Ok
Pending(bus) == SelectSeq(bus, LAMBDA m : m.m # "Ok")
\* the token that the parse stored in the list l
Listed(p) == <<NodesToken(TokenAt(input_tokens,
                                  IF p < Len(input_tokens) THEN p ELSE Len(input_tokens) - 1))>>

\* C18: Goto(label) resumes at the Label of that name in the rule list that
\* drains it, and a list without the label hands the Goto to the enclosing
\* list of the same node; when no enclosing list holds the label, also when
\* a nested list does, the node fails with LabelNotFound.
C18_GotoFindsLabel ==
    Done =>
        /\ \A j \in DOMAIN Drains :
              (Len(Pending(Drains[j].bus)) = 1 /\ Newest(Drains[j].bus).m = "Goto") =>
                  LET hits == { i \in DOMAIN Drains[j].labels :
                                  Drains[j].labels[i] = Newest(Drains[j].bus).label }
                  IN  IF hits = {}
                      THEN Drains[j].ret /\ Drains[j].msg = Newest(Drains[j].bus)
                      ELSE ~Drains[j].ret /\ Drains[j].to = Least(hits) - 1
        /\ (EntryRules \in {GotoSame, GotoCommand} /\ First.kind = "a") =>
              /\ Len(Sent) = 1 /\ Len(Drains) = 1
              /\ EntryEvent.tag = "Ok"
              /\ Var("n") = 0
              /\ Var("l") = Listed(Least(Positions({"a"})) + 1)
        /\ (EntryRules = GotoOuter /\ First.kind = "a") =>
              /\ Len(Sent) = 1 /\ Len(Drains) = 2
              /\ EntryEvent.tag = "Ok"
              /\ Var("n") = 0 /\ ~Var("f")
              /\ Var("l") = Listed(Least(Positions({"a"})) + 2)
        /\ (EntryRules = GotoOuter /\ First.kind # "a") =>
              /\ Sent = <<>>
              /\ EntryEvent.tag = "Ok"
              /\ Var("n") = 0 /\ Var("f") /\ Var("l") # <<>>
        /\ (EntryRules = GotoInner /\ First.kind = "a") =>
              /\ Len(Sent) = 1 /\ Len(Drains) = 1
              /\ EntryEvent.tag = "Err"
              /\ EntryEvent.err.kind = [e |-> "LabelNotFound", label |-> "L"]
              /\ Var("l") = <<>>

\* a Goto sent in a child list resumed at the label of the entry list
C18_Witness ==
    /\ Done
    /\ EntryRules = GotoOuter
    /\ Len(Drains) = 2
    /\ Drains[1].ret /\ Drains[1].msg = MsgGoto("L")
    /\ ~Drains[2].ret /\ Drains[2].to = 2
    /\ Var("l") # <<>>

\* the length of the longest head of a token sequence whose kinds alternate
\* between `want` and `other`
RECURSIVE Alternating(_, _, _)
Alternating(seq, want, other) ==
    IF seq = <<>> \/ Head(seq).kind # want THEN 0
    ELSE 1 + Alternating(Tail(seq), other, want)

\* C19: a Back(k) drained in a rule list at rule index i (the index after the
\* rule advanced it) sets the index to i - k when k <= i and otherwise hands
\* Back(k - i) to the enclosing list; a Back that the top-level list of the
\* node would still hand on makes the node fail with CannotGoBack.
C19_BackMovesIndex ==
    Done =>
        /\ \A j \in DOMAIN Drains :
              (Len(Pending(Drains[j].bus)) = 1 /\ Newest(Drains[j].bus).m = "Back") =>
                  IF Newest(Drains[j].bus).n <= Drains[j].i
                  THEN ~Drains[j].ret /\ Drains[j].to = Drains[j].i - Newest(Drains[j].bus).n
                  ELSE /\ Drains[j].ret
                       /\ Drains[j].msg = [m |-> "Back", label |-> "",
                                           n |-> Newest(Drains[j].bus).n - Drains[j].i]
        /\ \A k \in 1..3 :
              (EntryRules = BackAt(k) /\ Leading(Significant, "a") = 1
                  /\ Significant[2].kind = "b") =>
                  /\ Sent[1].msg = [m |-> "Back", n |-> k, label |-> ""]
                  /\ Drains[1].i = 2
                  /\ EntryEvent.tag = "Err"
                  /\ CASE k = 1 -> /\ Var("n") = 1
                                   /\ EntryEvent.err.kind.e = "ExpectedToken"
                                   /\ EntryEvent.err.kind.expected = "b"
                                   /\ Len(Sent) = Leading(Tail(Significant), "b")
                       [] k = 2 -> /\ Len(Sent) = Alternating(Significant, "a", "b") \div 2
                                   /\ Var("n") = (Alternating(Significant, "a", "b") + 1) \div 2
                                   /\ EntryEvent.err.kind.e = "ExpectedToken"
                                   /\ EntryEvent.err.kind.expected
                                         = (IF Alternating(Significant, "a", "b") % 2 = 0
                                            THEN "a" ELSE "b")
                       [] k = 3 -> /\ Var("n") = 1 /\ Len(Sent) = 1
                                   /\ EntryEvent.err.kind = [e |-> "CannotGoBack", n |-> 1]

\* the child list handed Back(1) to the entry list, which stepped back by one
C19_Witness ==
    /\ Done
    /\ EntryRules = BackNested
    /\ Len(Drains) = 2
    /\ Drains[1].ret /\ Drains[1].msg = MsgBack(1) /\ Drains[1].i = 1
    /\ ~Drains[2].ret /\ Drains[2].i = 2 /\ Drains[2].to = 1

\* C20: a Loop repeats its children until a Break is executed in its body
\* and stops repeating then; it never ends because its children completed.
C20_LoopUntilBreak ==
    Done =>
        /\ \A k \in 1..2 :
              (EntryRules = LoopBreak(k) /\ Sent # <<>>) =>
                  /\ Var("n") = 1
                  /\ Len(Sent) = 1
                  /\ EntryEvent.tag = "Ok"
        /\ EntryRules = LoopPlain =>
              /\ Var("n") = Leading(Significant, "a")
              /\ EntryEvent.tag = "Err"
              /\ ~Var("f")

\* the Compare command that ends the entry rules, and its operands' values
Compared == EntryRules[Len(EntryRules)].command
Comparing ==
    /\ EntryRules[Len(EntryRules)].type = "Command"
    /\ Compared.c = "Compare"
Declared(var) ==
    var.name \in DOMAIN (IF var.scope = "Local" THEN VarVars ELSE grammar.globals)
Operand(var) ==
    IF var.scope = "Local" THEN EntryNode.variables[var.name] ELSE outcome.globals[var.name]
Holds(var) == Operand(var).v
Kind(var) == Operand(var).k

\* two Node values the comparison takes for equal
SameNodes(a, b) ==
    \/ a = None /\ b = None
    \/ /\ a # None /\ b # None
       /\ \/ a[1].t = "Node" /\ b[1].t = "Node" /\ a[1].node.name = b[1].node.name
          \/ a[1].t = "Token" /\ b[1].t = "Token" /\ a[1].tok = b[1].tok

\* the comparisons that hold between the two operands
Produced(l, r) ==
    IF Kind(l) = "NodeList" \/ Kind(l) # Kind(r) THEN {"NotEqual"}
    ELSE IF Kind(l) = "Number"
    THEN (IF Holds(l) = Holds(r) THEN {"Equal", "GreaterThanOrEqual", "LessThanOrEqual"}
          ELSE IF Holds(l) > Holds(r) THEN {"NotEqual", "GreaterThan", "GreaterThanOrEqual"}
          ELSE {"NotEqual", "LessThan", "LessThanOrEqual"})
    ELSE IF Kind(l) = "Boolean"
    THEN (IF Holds(l) = Holds(r) THEN {"Equal"} ELSE {"NotEqual"})
    ELSE (IF SameNodes(Holds(l), Holds(r)) THEN {"Equal"} ELSE {"NotEqual"})

NotFound(var) ==
    /\ outcome.tag = "Err"
    /\ outcome.err.kind = [e |-> "VariableNotFound", var |-> var]

\* C21: Compare runs its children iff the requested comparison is among those
\* that hold between its operands: Equal/>=/<=, NotEqual/>/>= or NotEqual/</<=
\* for two Numbers, Equal or NotEqual for two Booleans and for two Node
\* variables, NotEqual alone for a NodeList on the left and for operands of
\* different kinds; an undeclared operand fails with VariableNotFound
C21_CompareRuns ==
    Done /\ Comparing =>
        IF ~Declared(Compared.left) THEN NotFound(Compared.left)
        ELSE IF ~Declared(Compared.right) THEN NotFound(Compared.right)
        ELSE /\ outcome.tag = "Ok"
             /\ EntryNode.harderror <=>
                    Compared.comparison \in Produced(Compared.left, Compared.right)

\* two same-named child nodes compare equal and the children run
C21_Witness ==
    /\ Done /\ Comparing
    /\ Declared(Compared.left) /\ Declared(Compared.right)
    /\ Compared.comparison = "Equal"
    /\ Kind(Compared.left) = "Node" /\ Kind(Compared.right) = "Node"
    /\ Holds(Compared.left) # None /\ Holds(Compared.right) # None
    /\ Holds(Compared.left) # Holds(Compared.right)
    /\ Holds(Compared.left)[1].t = "Node"
    /\ EntryNode.harderror

\* the matches of the entry node's own rules, in order
EntryMatched == SelectSeq(History, LAMBDA e : e.ev = "matched" /\ e.node = "entry")

\* the variables a parse starts from, and the ones it ends with
Fresh ==
    [vars |-> variables_from_grammar(VarVars),
     globals |-> variables_from_grammar(grammar.globals), e |-> "Ok", var |-> local("")]
Final ==
    [vars |-> EntryNode.variables, globals |-> outcome.globals,
     e |-> IF outcome.tag = "Err" THEN outcome.err.kind.e ELSE outcome.tag,
     var |-> IF outcome.tag = "Err" THEN outcome.err.kind.var ELSE local("")]

\* one Set of the matched value into the variable it names
Assigned(kind, value) ==
    IF kind.k = "Node" THEN [k |-> "Node", v |-> <<value>>]
    ELSE [k |-> "NodeList", v |-> kind.v \o <<value>>]
SetOne(p, st, value) ==
    LET store == IF p.p = "Set" THEN st.vars ELSE st.globals
        var == IF p.p = "Set" THEN local(p.var) ELSE global(p.var)
    IN  IF p.var \notin DOMAIN store
        THEN [st EXCEPT !.e = "VariableNotFound", !.var = var]
        ELSE IF store[p.var].k \in {"Boolean", "Number"}
        THEN [st EXCEPT !.e = "CannotSetVariable", !.var = var]
        ELSE IF p.p = "Set"
        THEN [st EXCEPT !.vars[p.var] = Assigned(store[p.var], value)]
        ELSE [st EXCEPT !.globals[p.var] = Assigned(store[p.var], value)]

\* the Sets of one rule, in declaration order, up to the first that fails
RECURSIVE SetAll(_, _, _, _)
SetAll(ps, k, st, value) ==
    IF k > Len(ps) \/ st.e # "Ok" THEN st
    ELSE SetAll(ps, k + 1, SetOne(ps[k], st, value), value)

\* C22: the parameters of a matched rule are applied in declaration order; Set
\* replaces the value of a Node variable by the matched token or node, appends
\* it to a NodeList variable, fails with CannotSetVariable on a Boolean or a
\* Number variable and with VariableNotFound on an undeclared one
C22_SetInOrder ==
    Done /\ EntryRules \in Setters /\ Len(EntryMatched) = 2 =>
        Final = SetAll(EntryRules[2].parameters, 1,
                       SetAll(EntryRules[1].parameters, 1, Fresh, EntryMatched[1].val),
                       EntryMatched[2].val)

\* a second token replaced the Node variable and was appended to the list
C22_Witness ==
    /\ Done /\ EntryRules \in Setters /\ Len(EntryMatched) = 2
    /\ EntryRules[2].parameters = <<Set("l"), Set("v")>>
    /\ EntryMatched[1].val # EntryMatched[2].val
    /\ Var("v") = <<EntryMatched[2].val>>
    /\ Var("l") = <<EntryMatched[1].val, EntryMatched[2].val>>
    /\ outcome.tag = "Ok"

\* how many matches of the entry node's rules of one type succeeded
Times(type) == Len(SelectSeq(EntryMatched, LAMBDA e : e.rule = type))

\* the counting parameter of the last rule, once its rule has matched
Counted == EntryRules[3].parameters[1]
Counts == Done /\ EntryRules \in Counters /\ Times("Is") = 1

\* the Number variable after the Increments and Decrements before the last rule
Before == [Fresh.vars EXCEPT !["n"] = [k |-> "Number", v |-> Times("While") - Times("Maybe")]]

\* C23: after i successful Increments and d successful Decrements a Number
\* variable that started at 0 holds i - d; on a Node, NodeList or Boolean
\* variable either parameter fails with UncountableVariable and no variable
\* changes
C23_CountsNumbers ==
    Counts =>
        IF Counted.var = "n"
        THEN /\ outcome.tag = "Ok"
             /\ EntryNode.variables =
                   [Before EXCEPT !["n"].v = IF Counted.p = "Increment" THEN @ + 1 ELSE @ - 1]
        ELSE /\ outcome.tag = "Err"
             /\ outcome.err.kind.e = "UncountableVariable"
             /\ outcome.err.kind.var = local(Counted.var)
             /\ EntryNode.variables = Before

\* C24: without a configured entry node parse returns MissingEntry, having
\* created no globals and read no token, whatever the grammar and the tokens
C24_MissingEntry ==
    Done /\ grammar.entry = None =>
        /\ outcome.tag = "Err"
        /\ outcome.err = ParseError([e |-> "MissingEntry"], 0, None)
        /\ outcome.globals = <<>>
        /\ History = <<>>
        /\ outcome.cursor = Cursor(0, FALSE)

\* an unconfigured parser was run on a text the entry rules would match
C24_Witness ==
    /\ Done /\ grammar.entry = None
    /\ EntryRules \in Counters
    /\ Len(input_tokens) > 1 /\ input_tokens[1].kind = "a"
    /\ outcome.err.kind.e = "MissingEntry"

\* the tokens of the lexed text
Lexed == pc \in {"lexed", "relexed"}
Ends(t) == t.index + t.len
Ranges == { r \in (DOMAIN input_tokens) \X (DOMAIN input_tokens) : r[1] <= r[2] }

\* C25: the tokens of a text are contiguous byte spans in increasing order that
\* cover the text exactly and end with the EOF token at the length of the
\* text; the slice of all the tokens is the text, and the slice of any
\* sub-range of the tokens is the substring between its first and last byte
C25_LexerTiling ==
    Lexed =>
        /\ input_tokens[1].index = 0
        /\ \A i \in 1..(Len(input_tokens) - 1) :
              /\ input_tokens[i].len > 0
              /\ input_tokens[i + 1].index = Ends(input_tokens[i])
        /\ input_tokens[Len(input_tokens)] =
              [kind |-> Eof, index |-> Len(input_text), len |-> 0,
               location |-> Location(input_text, Len(input_text))]
        /\ stringify_slice(input_tokens, input_text) = input_text
        /\ \A r \in Ranges :
              stringify_slice(SubSeq(input_tokens, r[1], r[2]), input_text)
                 = SubSeq(input_text, input_tokens[r[1]].index + 1, Ends(input_tokens[r[2]]))

\* a text of a registered token, text and a line end was lexed
C25_Witness ==
    /\ Lexed
    /\ Len(input_tokens) = 4
    /\ input_tokens[1].kind = "ab"
    /\ input_tokens[2].kind = Text
    /\ input_tokens[3].kind = Eol
    /\ input_tokens[3].index = 3

\* the kinds the lexer gives without a registration
BuiltIn == {Eof, Eol, Whitespace, Text}
Emitted == { i \in DOMAIN input_tokens : input_tokens[i].kind \notin BuiltIn }

\* the text is a proper prefix of the string of a registered token
Unfinished ==
    /\ input_text # <<>>
    /\ \E k \in lexer :
          /\ Len(input_text) < Len(Spelling[k])
          /\ SubSeq(Spelling[k], 1, Len(input_text)) = input_text

\* C26: a registered token is emitted only where its whole string is a prefix
\* of the remaining input, and it is the longest registered string that is; a
\* text that is only a proper prefix of a registered token is one Text token;
\* a registered token at the start of the text is recognised whatever follows
C26_LongestToken ==
    Lexed =>
        /\ \A i \in Emitted :
              /\ input_tokens[i].kind \in lexer
              /\ stringify(input_tokens[i], input_text) = Spelling[input_tokens[i].kind]
              /\ \A k \in lexer :
                    IsPrefixAt(Spelling[k], input_text, input_tokens[i].index)
                       => Len(Spelling[k]) <= input_tokens[i].len
        /\ Unfinished /\ (\A p \in 0..(Len(input_text) - 1) : starting(lexer, input_text, p) = {})
              => /\ Len(input_tokens) = 2
                 /\ input_tokens[1].kind = Text
                 /\ input_tokens[1].len = Len(input_text)
        /\ \A k \in lexer :
              IsPrefixAt(Spelling[k], input_text, 0) => 1 \in Emitted

\* the longer of two registered tokens was taken, and text follows it
C26_Witness ==
    /\ Lexed
    /\ lexer = {"a", "ab"}
    /\ Len(input_tokens) = 3
    /\ input_tokens[1].kind = "ab"
    /\ input_tokens[2].kind = Text

\* C27: lexing the text that the tokens of a text spell gives the same tokens
\* again: the same kinds, indices, lengths and locations
C27_IdempotentLexing ==
    pc = "relexed" => twin.tokens = input_tokens

\* a text with whitespace, a line end and a registered token was lexed twice
C27_Witness ==
    /\ pc = "relexed"
    /\ Emitted # {}
    /\ \E i \in DOMAIN input_tokens : input_tokens[i].kind = Whitespace
    /\ \E i \in DOMAIN twin.tokens :
          /\ twin.tokens[i].kind = Eol
          /\ twin.tokens[Len(twin.tokens)].location.line = 1

\* the matches and commands of a rule tree, at every depth: each match with
\* its token and parameters, each command as it is
RECURSIVE Sites(_)
RECURSIVE SitesOf(_)
RECURSIVE SitesIn(_)
Sites(rules) == IF rules = <<>> THEN <<>> ELSE SitesOf(rules[1]) \o Sites(Tail(rules))
SitesIn(alternatives) ==
    IF alternatives = <<>> THEN <<>>
    ELSE << [token |-> alternatives[1].token, parameters |-> alternatives[1].parameters] >>
         \o Sites(alternatives[1].rules) \o SitesIn(Tail(alternatives))
SitesOf(rule) ==
    CASE rule.type \in {"Is", "Isnt", "While", "Until"} ->
            << [token |-> rule.token, parameters |-> rule.parameters] >> \o Sites(rule.rules)
      [] rule.type = "Maybe" ->
            << [token |-> rule.token, parameters |-> rule.parameters] >>
            \o Sites(rule.is) \o Sites(rule.isnt)
      [] rule.type \in {"IsOneOf", "UntilOneOf"} -> SitesIn(rule.tokens)
      [] rule.type = "MaybeOneOf" -> SitesIn(rule.is_one_of) \o Sites(rule.isnt)
      [] rule.type = "Loop" -> Sites(rule.rules)
      [] rule.type = "Command" ->
            << [command |-> rule.command] >>
            \o (IF rule.command.c = "Compare" THEN Sites(rule.command.rules) ELSE <<>>)

Validated == pc = "validated"
NodeSites(name) == Sites(grammar.nodes[name].rules)
Matching(name) == SelectSeq(NodeSites(name), LAMBDA x : "token" \in DOMAIN x)
Commanding(name) == SelectSeq(NodeSites(name), LAMBDA x : "command" \in DOMAIN x)

\* how often a sequence holds a value
Count(seq, x) == Cardinality({ i \in DOMAIN seq : seq[i] = x })
RECURSIVE Flatten(_)
Flatten(seqs) == IF seqs = <<>> THEN <<>> ELSE seqs[1] \o Flatten(Tail(seqs))
NodeParameters(name) ==
    Flatten([i \in DOMAIN Matching(name) |-> Matching(name)[i].parameters])

\* the errors and the warnings of one kind about one thing in one node
Errors(e, of, name) == Count(outcome.errors, [kind |-> [e |-> e, of |-> of], node |-> <<name>>])
Warnings(e, of, name) ==
    Count(outcome.warnings, [kind |-> [e |-> e, of |-> of], node |-> <<name>>])

\* the Gotos to a label and the declarations of a label in a node
GotosTo(l, name) ==
    Count(Commanding(name), [command |-> [c |-> "Goto", label |-> l]])
      + Count(NodeParameters(name), [p |-> "Goto", label |-> l])
Declarations(l, name) == Count(Commanding(name), [command |-> [c |-> "Label", name |-> l]])
LabelNames == {"L", "M"}

\* C28: in every node, each Goto, command or parameter, whose label no Label
\* command of the node's rule tree declares is reported as LabelNotFound, a
\* label declared more than once as DuplicateLabel, and each Label that no
\* Goto of the node targets gets an UnusedLabel warning; the labels of other
\* nodes do not count
C28_ValidatorLabels ==
    Validated =>
        \A name \in DOMAIN grammar.nodes, l \in LabelNames :
            /\ Errors("LabelNotFound", l, name) =
                  (IF Declarations(l, name) = 0 THEN GotosTo(l, name) ELSE 0)
            /\ Errors("DuplicateLabel", l, name) =
                  (IF Declarations(l, name) > 1 THEN Declarations(l, name) - 1 ELSE 0)
            /\ Warnings("UnusedLabel", l, name) =
                  (IF GotosTo(l, name) = 0 THEN Declarations(l, name) ELSE 0)

\* a nested Goto parameter to a label that only the other node declares
C28_Witness ==
    /\ Validated
    /\ Declarations("L", "entry") = 0 /\ Declarations("L", "other") = 1
    /\ Count(NodeParameters("entry"), [p |-> "Goto", label |-> "L"]) = 1
    /\ grammar.nodes["entry"].rules[1].type = "MaybeOneOf"
    /\ Errors("LabelNotFound", "L", "entry") = 1
    /\ Warnings("UnusedLabel", "M", "entry") = 1

\* the tokens the rules of a node match, at every depth
TokensOf(name) == [i \in DOMAIN Matching(name) |-> Matching(name)[i].token]

\* what a match names that the parser does not have
Missing(t) ==
    CASE t.m = "Node" -> t.name \notin DOMAIN grammar.nodes
      [] t.m = "Enumerator" -> t.name \notin DOMAIN grammar.enumerators
      [] t.m = "Token" -> t.kind \notin BuiltIn /\ t.kind \notin lexer
      [] OTHER -> FALSE
Complaint(t) ==
    CASE t.m = "Node" -> [e |-> "NodeNotFound", of |-> t.name]
      [] t.m = "Enumerator" -> [e |-> "EnumeratorNotFound", of |-> t.name]
      [] t.m = "Token" -> [e |-> "TokenNotFound", of |-> t.kind]
      [] OTHER -> [e |-> "", of |-> ""]
NotFoundErrors == {"NodeNotFound", "EnumeratorNotFound", "TokenNotFound"}

\* the reference errors are those of the matches that name something missing
Referenced(t, name) ==
    Errors(Complaint(t).e, Complaint(t).of, name)
       = (IF Missing(t) THEN Count(TokensOf(name), t) ELSE 0)
Unfounded(name) ==
    { i \in DOMAIN outcome.errors :
        /\ outcome.errors[i].node = <<name>>
        /\ outcome.errors[i].kind.e \in NotFoundErrors
        /\ \A j \in DOMAIN TokensOf(name) :
              ~(Missing(TokensOf(name)[j]) /\ Complaint(TokensOf(name)[j]) = outcome.errors[i].kind) }

\* C29 as stated: every match, at any depth of any node's rules, that names a
\* node or an enumerator the grammar lacks or a token string the lexer does not
\* register is reported as NodeNotFound, EnumeratorNotFound or TokenNotFound,
\* and nothing else is
C29_ValidatorReferences ==
    Validated =>
        \A name \in DOMAIN grammar.nodes :
            /\ \A i \in DOMAIN TokensOf(name) : Referenced(TokensOf(name)[i], name)
            /\ Unfounded(name) = {}

\* C29, amended: the same for every match but the one of the empty token
\* string, which is reported as EmptyToken and not as TokenNotFound
C29_ValidatorReferencesNonEmpty ==
    Validated =>
        \A name \in DOMAIN grammar.nodes :
            /\ \A i \in DOMAIN TokensOf(name) :
                  IF TokensOf(name)[i] = [m |-> "Token", kind |-> ""]
                  THEN /\ Errors("EmptyToken", "", name)
                             = Count(TokensOf(name), TokensOf(name)[i])
                       /\ Errors("TokenNotFound", "", name) = 0
                  ELSE Referenced(TokensOf(name)[i], name)
            /\ Unfounded(name) = {}

\* an unregistered token among the alternatives of a nested rule, next to a
\* missing node
C29_Witness ==
    /\ Validated
    /\ Len(grammar.nodes["entry"].rules) = 2
    /\ grammar.nodes["entry"].rules[2].type = "UntilOneOf"
    /\ Errors("TokenNotFound", "b", "entry") = 1
    /\ Errors("NodeNotFound", "nope", "entry") = 1
    /\ Errors("EnumeratorNotFound", "nope", "entry") = 0

\* the parameters of a node that name a variable, and the variable each names
Naming(name) ==
    SelectSeq(NodeParameters(name),
              LAMBDA x : /\ x.p \in {"Set", "Global", "Increment", "IncrementGlobal", "Decrement",
                                     "True", "TrueGlobal", "False", "FalseGlobal", "Debug"}
                         /\ (x.p = "Debug" => x.var # None))
Names(x) ==
    IF x.p = "Debug" THEN x.var[1]
    ELSE IF x.p \in {"Global", "IncrementGlobal", "TrueGlobal", "FalseGlobal"}
    THEN [scope |-> "Global", name |-> x.var]
    ELSE [scope |-> "Local", name |-> x.var]

\* the declarations a variable is looked up in, and the kinds a parameter needs
Scope(var, name) ==
    IF var.scope = "Local" THEN grammar.nodes[name].variables ELSE grammar.globals
Undeclared(var, name) == var.name \notin DOMAIN Scope(var, name)
Needs(x) ==
    CASE x.p \in {"Set", "Global"} -> {"Node", "NodeList"}
      [] x.p \in {"Increment", "IncrementGlobal", "Decrement"} -> {"Number"}
      [] x.p \in {"True", "TrueGlobal", "False", "FalseGlobal"} -> {"Boolean"}
      [] OTHER -> {"Node", "NodeList", "Number", "Boolean"}
Misused(x, name) ==
    ~Undeclared(Names(x), name) /\ Scope(Names(x), name)[Names(x).name] \notin Needs(x)

\* how many parameters of the node name the variable without a declaration,
\* and how many use it against its kind
Lost(var, name) ==
    Cardinality({ i \in DOMAIN Naming(name) :
                    Names(Naming(name)[i]) = var /\ Undeclared(var, name) })
Abused(var, name) ==
    Cardinality({ i \in DOMAIN Naming(name) :
                    Names(Naming(name)[i]) = var /\ Misused(Naming(name)[i], name) })
VariableErrors(name) ==
    { i \in DOMAIN outcome.errors :
        /\ outcome.errors[i].node = <<name>>
        /\ outcome.errors[i].kind.e \in {"VariableNotFound", "CantUseVariable"} }

\* C30: every Set, Increment, Decrement, True, False or Debug parameter that
\* names a variable declared neither in its node (a local) nor in the globals
\* (a global) is reported as VariableNotFound, every one whose variable has a
\* kind it cannot be used on (Set: Node or NodeList, Increment and Decrement:
\* Number, True and False: Boolean) as CantUseVariable, and pass() is true iff
\* no error was reported
C30_ValidatorVariables ==
    Validated =>
        /\ \A name \in DOMAIN grammar.nodes :
              /\ \A i \in DOMAIN Naming(name) :
                    /\ Errors("VariableNotFound", Names(Naming(name)[i]), name)
                          = Lost(Names(Naming(name)[i]), name)
                    /\ Errors("CantUseVariable", Names(Naming(name)[i]), name)
                          = Abused(Names(Naming(name)[i]), name)
              /\ \A i \in VariableErrors(name) :
                    \E j \in DOMAIN Naming(name) :
                        Names(Naming(name)[j]) = outcome.errors[i].kind.of
        /\ outcome.pass <=> outcome.errors = <<>>

\* a Set on a Number variable in the alternative of a nested rule
C30_Witness ==
    /\ Validated
    /\ grammar.nodes["entry"].rules[1].type = "MaybeOneOf"
    /\ NodeParameters("entry") = <<Set("n")>>
    /\ Errors("CantUseVariable", local("n"), "entry") = 1
    /\ ~outcome.pass

\* the raise events of the history: a rule returned the error of its match
Raised == { k \in Steps : History[k].ev = "raise" }

\* the rule of the entry node that raised: the first rule is the only one
\* that expects the token "a"
Raiser(ev) ==
    IF ev.err.kind.e = "ExpectedToken" /\ ev.err.kind.expected = "a"
    THEN grammar.nodes["entry"].rules[1]
    ELSE grammar.nodes["entry"].rules[2]

Hints(rule) == SelectSeq(rule.parameters, LAMBDA x : x.p = "Hint")

TokenMatched == { k \in Steps : History[k].ev = "matched" /\ is_token(History[k].val) }
\* a match of a token, a word or Any is one step of the history; the match
\* of a node or an enumerator is recorded when it returns
Attempts ==
    { k \in Steps : History[k].ev = "match" /\ History[k].token.m \in {"Token", "Word", "Any"} }

\* the first match attempt after step k, when no node failed in between
Following(k) ==
    { j \in Attempts :
        /\ j > k
        /\ \A i \in (k + 1)..(j - 1) :
              /\ i \notin Attempts
              /\ History[i].ev = "node" => History[i].tag = "Ok" }

LastIndex == Len(input_tokens) - 1
Advanced(c) == IF c + 1 <= LastIndex THEN c + 1 ELSE LastIndex

\* the errors the history and the result hold
ErrorsSeen ==
    { History[k].err : k \in { i \in Steps : History[i].ev \in {"node", "raise", "swallow"} } }
        \cup (IF outcome.tag = "Err" THEN {outcome.err} ELSE {})

\* C32: pending advance.  A rule that accepts a token leaves the cursor on
\* that token; the next match attempt starts one token further, on the last
\* token when there is no further one, with the flag cleared; the parse ends
\* with the cursor on the token and the flag set, or one token further with
\* the flag cleared.  An Eof error that names a node is raised only by a
\* parser with eof_error, and such a parser never clamps.
C32_PendingAdvance ==
    Done /\ outcome.tag \in {"Ok", "Err"} =>
        /\ \A k \in TokenMatched :
              /\ History[k].val.tok = TokenAt(input_tokens, History[k].at)
              /\ \A j \in Following(k) :
                    /\ History[j].before = Cursor(Advanced(History[k].at), FALSE)
                    /\ grammar.eof_error => History[j].before.idx = History[k].at + 1
        /\ \A e \in ErrorsSeen :
              e.kind.e = "Eof" /\ e.node # None => grammar.eof_error
        /\ outcome.tag = "Ok" /\ TokenMatched # {} =>
              LET k == CHOOSE x \in TokenMatched : \A y \in TokenMatched : y <= x
              IN  (\A i \in Steps : i > k =>
                        /\ i \notin Attempts
                        /\ History[i].ev = "node" => History[i].tag = "Ok") =>
                    \/ outcome.cursor = Cursor(History[k].at, TRUE)
                    \/ outcome.cursor = Cursor(Advanced(History[k].at), FALSE)

\* two tokens are matched in a row by two rules, and the second attempt
\* starts one token after the first
C32_Witness ==
    /\ Done /\ outcome.tag = "Ok"
    /\ \E k \in TokenMatched : \E j \in Following(k) :
          /\ History[j].before.idx = History[k].at + 1
          /\ History[j].tag = "Is" /\ is_token(History[j].val)
          /\ j \in { i - 1 : i \in TokenMatched }

\* the returns of nodes that parsed, and the nodes whose rules hold a
\* NodeStart or a NodeEnd parameter
Returned == { k \in Steps : History[k].ev = "node" /\ History[k].tag = "Ok" }
SetsSpan(name) ==
    \E i \in DOMAIN NodeParameters(name) : NodeParameters(name)[i].p \in {"NodeStart", "NodeEnd"}
EndOf(t) == t.index + t.len

\* C33: default node span.  A node that applies neither NodeStart nor
\* NodeEnd starts at the byte index of the token under the cursor when it
\* was entered and ends at the end byte of the token under the cursor when
\* it returns.  The node R applies NodeEnd on its first token and matches
\* two more: it keeps the end of the first token.
C33_DefaultSpan ==
    Done =>
        \A k \in Returned :
            LET ev == History[k] IN
            /\ ~SetsSpan(ev.name) =>
                  /\ ev.node.first_string_idx = TokenAt(input_tokens, ev.entry.idx).index
                  /\ ev.node.last_string_idx = EndOf(TokenAt(input_tokens, ev.exit.idx))
            /\ ev.name = "R" =>
                  /\ ev.node.last_string_idx =
                        EndOf(TokenAt(input_tokens, skip_whitespace(input_tokens, ev.entry.idx)))
                  /\ ev.node.last_string_idx < EndOf(TokenAt(input_tokens, ev.exit.idx))

\* a child node without span parameters returns with the cursor further
\* than it entered, spanning more than one byte
C33_Witness ==
    /\ Done /\ outcome.tag = "Ok"
    /\ \E k \in Returned :
          /\ ~SetsSpan(History[k].name) /\ History[k].name # "entry"
          /\ History[k].exit.idx > History[k].entry.idx
          /\ History[k].node.last_string_idx > History[k].node.first_string_idx + 1
          /\ History[k].node.last_string_idx = EndOf(TokenAt(input_tokens, History[k].exit.idx))

\* the matches of an enumerator the history holds
EnumMatches == { k \in Steps : History[k].ev = "match" /\ History[k].token.m = "Enumerator" }

\* one value matched on its own from the cursor c
Try(value, c) ==
    match_token(grammar, value, SetCursor(start(grammar), c), c, input_tokens, input_text,
                MaxFuel)

\* the values that do not fail recoverably from the cursor c
Decisive(values, c) ==
    { i \in DOMAIN values :
        Try(values[i], c).tag = "IsNot" => node_harderror(Try(values[i], c).err) }

\* C34: enumerator match.  The values are tried in declaration order, each
\* from the position the enumerator started at: the match succeeds with the
\* value and the cursor of the first value that matches; when every value
\* fails it fails recoverably with ExpectedOneOf and the cursor where the
\* enumerator started; a missing enumerator is EnumeratorNotFound, which
\* the parse returns.
C34_EnumeratorMatch ==
    Done /\ outcome.tag \in {"Ok", "Err"} =>
        \A k \in EnumMatches :
            LET ev == History[k]
                name == ev.token.name
                values == grammar.enumerators[name].values
                first == CHOOSE i \in Decisive(values, ev.before) :
                            \A j \in Decisive(values, ev.before) : i <= j
                won == Try(values[first], ev.before)
            IN  IF name \notin DOMAIN grammar.enumerators
                THEN /\ ev.tag = "Err"
                     /\ ev.err.kind = [e |-> "EnumeratorNotFound", name |-> name]
                     /\ outcome.tag = "Err" /\ outcome.err = ev.err
                ELSE IF Decisive(values, ev.before) = {}
                THEN /\ ev.tag = "IsNot"
                     /\ ev.err.kind = [e |-> "ExpectedOneOf", expected |-> values,
                                       found |-> TokenAt(input_tokens, ev.before.idx).kind]
                     /\ ev.after = ev.before
                ELSE /\ won.tag = "Is" =>
                            ev.tag = "Is" /\ ev.val = won.val /\ ev.after = won.s.cursor
                     /\ won.tag # "Is" => ev.tag = "Err" /\ ev.err = won.err

\* the first value is a child node that consumes a token and fails; the
\* second value then matches the token the enumerator started at, which
\* stands after whitespace the first value had skipped
C34_Witness ==
    /\ Done /\ outcome.tag = "Ok"
    /\ \E k \in EnumMatches :
          /\ History[k].token.name = "ua"
          /\ History[k].tag = "Is" /\ is_token(History[k].val)
          /\ History[k].before.idx > 0
          /\ History[k].after.idx > History[k].before.idx

\* the grammar sends no Goto and no Back, by command or by parameter (the
\* grammars of this specification hold no Loop and no node that refers to
\* itself)
Straight ==
    \A name \in DOMAIN grammar.nodes :
        /\ \A i \in DOMAIN NodeParameters(name) :
              NodeParameters(name)[i].p \notin {"Goto", "Back"}
        /\ \A i \in DOMAIN Commanding(name) : Commanding(name)[i].command.c # "Goto"

\* the While of the entry node accepted a match twice at the same cursor
\* index with nothing between the two but the bookkeeping of the rule loop
Stuck ==
    \E j, k \in Steps :
        /\ j < k
        /\ History[j].ev = "matched" /\ History[j].rule = "While" /\ History[j].node = "entry"
        /\ History[k] = History[j]

\* C35: termination.  The parse of a grammar without Loop, Goto, Back and
\* recursion ends, on every token stream, with a result or an error: the
\* interpreter is not still running when the bound of the evaluation is
\* reached, and no While accepts the same match twice from the same cursor.
C35_Terminates == Done /\ Straight => outcome.tag # "Fuel" /\ ~Stuck

\* C36: validation is sound for labels.  When the validator reports no
\* error for the grammar, the parse of an input with that grammar does not
\* fail with LabelNotFound.
C36_LabelsSound ==
    pc = "parsed" /\ outcome.tag = "Ok" /\ outcome.pass =>
        ~(twin.tag = "Err" /\ twin.err.kind.e = "LabelNotFound")

\* the first rule of the node K accepted a token: its parameters updated the
\* globals; the returns of K, by result
Updates ==
    SelectSeq(History, LAMBDA ev : ev.ev = "matched" /\ ev.node = "K" /\ ev.rule = "Is"
                                   /\ ev.val.tok.kind = "a")
Abandoned == { k \in Steps : History[k].ev = "node" /\ History[k].name = "K"
                               /\ History[k].tag = "Err" }
Kept_K == SelectSeq(History, LAMBDA ev : ev.ev = "node" /\ ev.name = "K" /\ ev.tag = "Ok")

\* the child nodes the entry node holds in its variables
Held(entry) ==
    SelectSeq(entry.variables["l"].v, LAMBDA x : ~is_token(x))

\* C37: rollback covers the cursor only.  The globals a parse returns hold
\* every update the node K made, whether K then parsed or failed: the
\* counter counts every update, the list holds every token, the flag is
\* set after the first.  The entry node holds the K nodes that parsed and
\* none of those that failed.
C37_GlobalsSurviveRollback ==
    Done /\ outcome.tag = "Ok" =>
        /\ outcome.globals["c"].v = Len(Updates)
        /\ outcome.globals["g"].v = [k \in DOMAIN Updates |-> Updates[k].val]
        /\ outcome.globals["t"].v = (Updates # <<>>)
        /\ Held(outcome.entry[1]) = [k \in DOMAIN Kept_K |-> NodesNode(Kept_K[k].node)]

\* K parsed once and failed once after its update; both updates are in the
\* globals of the successful parse and one node is held
C37_Witness ==
    /\ Done /\ outcome.tag = "Ok"
    /\ Abandoned # {}
    /\ Len(Kept_K) = 1
    /\ outcome.globals["c"].v = 2
    /\ Len(outcome.globals["g"].v) = 2
    /\ Len(Held(outcome.entry[1])) = 1

\* the keys pushes returned that were never passed to delete
Live == { i \in DOMAIN issued : ~issued[i].deleted }

\* C38: live keys.  Every key a push returned and delete was never given
\* resolves through get to the value pushed with it, and no two such keys
\* name the same slot.
C38_LiveKeysResolve ==
    /\ \A i \in Live : get(arena, issued[i].key) = Some(issued[i].value)
    /\ \A i, j \in Live : i # j => issued[i].key.index # issued[j].key.index

\* the keys issued for the slot of the i-th key, before it and after it
Earlier(i) == { j \in DOMAIN issued : j < i /\ issued[j].key.index = issued[i].key.index }
Later(i) == { j \in DOMAIN issued : j > i /\ issued[j].key.index = issued[i].key.index }

\* C39: stale keys.  Once the slot of a deleted key was reused by a later
\* push, get and get_mut with the old key give None, and the newest key of
\* the slot gives the value of its push.  The first key of a slot has
\* version 1 and every reuse has the version of the key before it plus
\* one, so no two keys of one slot have the same version.
C39_StaleKeysDetected ==
    \A i \in DOMAIN issued :
        /\ issued[i].deleted /\ Later(i) # {} =>
              /\ get(arena, issued[i].key) = None
              /\ get_mut(arena, issued[i].key) = None
        /\ Later(i) = {} =>
              /\ get(arena, issued[i].key) = Some(issued[i].value)
              /\ get_mut(arena, issued[i].key) = Some(issued[i].value)
        /\ issued[i].key.version = Cardinality(Earlier(i)) + 1
        /\ \A j \in DOMAIN issued :
              i # j /\ issued[i].key.index = issued[j].key.index =>
                  issued[i].key.version # issued[j].key.version

\* a slot was used by three pushes: the two old keys are stale, the newest
\* one resolves, and another slot is in use beside it
C39_Witness ==
    \E i, j, k \in DOMAIN issued :
        /\ i < j /\ j < k
        /\ issued[i].key.index = issued[k].key.index
        /\ issued[j].key.index = issued[k].key.index
        /\ issued[k].key.version = 3
        /\ issued[i].deleted /\ issued[i].value # issued[k].value
        /\ get(arena, issued[i].key) = None
        /\ get(arena, issued[k].key) = Some(issued[k].value)
        /\ Len(arena.data) = 2

\* C40: validating a lexer that registers an empty token string completes
\* normally: the result carries an EmptyToken error, the validation does not
\* abort, and the grammar checks have run on the same result
GrammarChecked ==
    validate_grammar([lexer |-> lexer, grammar |-> grammar], ValidationResult)
C40_EmptyTokenReported ==
    pc = "validated" /\ "" \in lexer
        => /\ outcome.tag = "Ok"
           /\ \E i \in DOMAIN outcome.errors : outcome.errors[i].kind.e = "EmptyToken"
           /\ \A i \in DOMAIN GrammarChecked.errors :
                 \E j \in DOMAIN outcome.errors : outcome.errors[j].kind.e = GrammarChecked.errors[i].kind.e

\* every evaluation ends within the depth bound
NoFuel == outcome.tag # "Fuel" /\ twin.tag # "Fuel"

====
